---- MODULE Spec2Model ----
(***************************************************************************)
(* Model of the Stripe reconciliation core of                              *)
(* crates/collab/src/api/billing.rs: the event poller and dispatcher       *)
(* (poll_stripe_events), the customer and subscription handlers            *)
(* (handle_customer_event, handle_customer_subscription_event,             *)
(* sync_subscription, find_or_create_billing_customer), the store rows    *)
(* they write, and the usage sync (sync_model_request_usage_with_stripe).  *)
(***************************************************************************)
EXTENDS Integers, Sequences, FiniteSets, TLC

VARIABLES
    now,                                \* Utc::now(), seconds
    stripe_events,                      \* the provider's event log, oldest first
    processed_stripe_events,            \* the processed-event ledger (set of records)
    billing_customers,                  \* table, row id = position
    billing_subscriptions,              \* table, row id = position
    stripe_calls,                       \* provider mutation calls of the last handler run
    rpc_calls,                          \* notifications to rpc_server of the last handler run
    pc,                                 \* "idle" | "paging" | "handling"
    event_pages,                        \* the page held by the paginator
    pages_of_already_processed_events,  \* local of poll_stripe_events
    unprocessed_events,                 \* local of poll_stripe_events
    tick_result,                        \* what the last tick returned: "none" | "ok" | "err"
    dispatched,                         \* history: the events the current tick has reached
    prev_failed,                        \* history: ids whose handler failed in the tick before
    pages_seen,                         \* history: per page checked this tick, was it fully processed
    usage_pc,                           \* the usage sync: "idle" | "syncing"
    staff_user_ids,                     \* local of sync_model_request_usage_with_stripe
    usage_meters_by_user_id,            \* local, << >> for an account without an entry
    zed_pro_subscriptions,              \* local billing_subscriptions, in iteration order
    known_models,                       \* the models llm_db.model() can load
    usage_next,                         \* position of the account loop
    usage_calls,                        \* provider calls issued for the last account
    usage_outcome,                      \* history: "none" | "staff" | "ok" | "failed", last account
    usage_failed,                       \* history: an account of this tick has failed
    usage_result,                       \* what the last usage sync returned
    race_snapshot,                      \* the provider's snapshot two concurrent syncs apply
    race                                \* per concurrent sync: its position and its locals

usage_vars == << usage_pc, staff_user_ids, usage_meters_by_user_id, zed_pro_subscriptions,
                 known_models, usage_next, usage_calls, usage_outcome, usage_failed,
                 usage_result >>

poll_vars == << now, stripe_events, processed_stripe_events, billing_customers,
                billing_subscriptions, stripe_calls, rpc_calls, pc, event_pages,
                pages_of_already_processed_events, unprocessed_events, tick_result,
                dispatched, prev_failed, pages_seen >>

race_vars == << race_snapshot, race >>

vars == << poll_vars, usage_vars, race_vars >>

(***************************************************************************)
(* Bounds of the model.                                                    *)
(***************************************************************************)
\* events the provider emits under Spec
MaxEvents == 2
\* events the provider emits under SpecPages
MaxPagedEvents == 6
\* events the provider emits under SpecOrder
MaxOrderEvents == 3
\* events the model's provider serves per page
PageLen == 1
\* events the provider emits under SpecSync
MaxSyncEvents == 3
\* local accounts under SpecUsage
MaxUsageAccounts == 2
\* events the provider emits under SpecLoops
MaxLoopEvents == 1

(***************************************************************************)
(* Program constants.                                                      *)
(***************************************************************************)
EVENTS_LIMIT_PER_PAGE == 100

NUMBER_OF_ALREADY_PROCESSED_PAGES_BEFORE_WE_STOP == 4

one_day == 24 * 60 * 60

\* absent Option<timestamp>
NoTime == 0 - 1

Last(s) == s[Len(s)]

Min(a, b) == IF a < b THEN a ELSE b

(***************************************************************************)
(* The collaborators' data: local accounts and the provider's customers.   *)
(***************************************************************************)
\* the emails of the local accounts (one account, 1)
AccountEmails == { "a@zed.dev" }

\* app.db.get_user_by_email: the local account with this email, 0 for None
get_user_by_email(email) == IF email \in AccountEmails THEN 1 ELSE 0

\* customer.email of the provider's customer object, "none" for None
StripeCustomerEmail(cus) ==
    CASE cus = "cus_1" -> "a@zed.dev"
      [] cus = "cus_2" -> "a@zed.dev"
      [] cus = "cus_4" -> "b@zed.dev"
      [] OTHER -> "none"

\* EventType -> its wire name, unquoted
event_type_to_string(event_type) ==
    CASE event_type = "CustomerCreated" -> "customer.created"
      [] event_type = "CustomerUpdated" -> "customer.updated"
      [] event_type = "CustomerSubscriptionCreated" -> "customer.subscription.created"
      [] event_type = "CustomerSubscriptionUpdated" -> "customer.subscription.updated"
      [] event_type = "CustomerSubscriptionPaused" -> "customer.subscription.paused"
      [] event_type = "CustomerSubscriptionResumed" -> "customer.subscription.resumed"
      [] event_type = "CustomerSubscriptionDeleted" -> "customer.subscription.deleted"
      [] OTHER -> "other"

\* EventObject::Customer(customer)
CustomerObject(cus) ==
    [ tag |-> "Customer", customer |-> cus, id |-> "none", status |-> "none",
      kind |-> "none", current_period_start |-> 0, current_period_end |-> 0,
      cancel_at |-> NoTime, reason |-> "none" ]

\* EventObject::Subscription(subscription); kind is what
\* determine_subscription_kind answers for it
SubscriptionObject(sub, cus, status, kind, period_start, cancel_at, reason) ==
    [ tag |-> "Subscription", customer |-> cus, id |-> sub, status |-> status,
      kind |-> kind, current_period_start |-> period_start,
      current_period_end |-> period_start + 30,
      cancel_at |-> cancel_at, reason |-> reason ]

\* the two callers of sync_subscription that can run side by side: the handler of a
\* poll tick (line 1100) and the manual sync request (line 656)
Syncs == { "tick", "manual" }

\* a sync that has not been called
NotStarted == [ pc |-> "none", customer |-> 0, existing |-> 0, result |-> "none" ]

NoSnapshot == CustomerObject("none")

\* what the provider emits under Spec: (event type, payload)
EventPayloads ==
    { << "CustomerCreated", CustomerObject("cus_1") >>,
      << "CustomerSubscriptionCreated",
         SubscriptionObject("sub_1", "cus_1", "trialing", "ZedProTrial", 1, 5, "none") >>,
      << "CustomerSubscriptionCreated",
         SubscriptionObject("sub_2", "cus_1", "trialing", "ZedProTrial", 2, NoTime, "none") >>,
      << "CustomerSubscriptionCreated",
         SubscriptionObject("sub_3", "cus_3", "active", "ZedPro", 1, NoTime, "none") >> }

\* what the provider emits under SpecPages and SpecOrder: a customer without an
\* email (its handler skips) and a subscription of such a customer (its handler fails)
PagePayloads ==
    { << "CustomerUpdated", CustomerObject("cus_3") >>,
      << "CustomerSubscriptionCreated",
         SubscriptionObject("sub_3", "cus_3", "active", "ZedPro", 1, NoTime, "none") >> }

OrderPayloads == { << "CustomerUpdated", CustomerObject("cus_3") >> }

\* what the provider emits under SpecSync: the life of the subscriptions of one
\* account (a free plan, a trial, a paid plan that is scheduled to cancel and then
\* canceled for a failed payment, a second paid plan that is paused or canceled on
\* request), a second provider customer with the account's email, a provider
\* customer without an email and one whose email is no account's
SyncPayloads ==
    { << "CustomerCreated", CustomerObject("cus_2") >>,
      << "CustomerUpdated", CustomerObject("cus_3") >>,
      << "CustomerCreated", CustomerObject("cus_4") >>,
      << "CustomerSubscriptionCreated",
         SubscriptionObject("sub_0", "cus_1", "active", "ZedFree", 1, NoTime, "none") >>,
      << "CustomerSubscriptionCreated",
         SubscriptionObject("sub_1", "cus_1", "trialing", "ZedProTrial", 1, NoTime, "none") >>,
      << "CustomerSubscriptionUpdated",
         SubscriptionObject("sub_1", "cus_1", "active", "ZedPro", 2, 5, "none") >>,
      << "CustomerSubscriptionDeleted",
         SubscriptionObject("sub_1", "cus_1", "canceled", "ZedPro", 2, NoTime, "payment_failed") >>,
      << "CustomerSubscriptionDeleted",
         SubscriptionObject("sub_2", "cus_1", "canceled", "ZedPro", 2, NoTime,
                            "cancellation_requested") >>,
      << "CustomerSubscriptionCreated",
         SubscriptionObject("sub_2", "cus_1", "active", "ZedPro", 2, NoTime, "none") >>,
      << "CustomerSubscriptionPaused",
         SubscriptionObject("sub_2", "cus_1", "paused", "ZedPro", 2, NoTime, "none") >> }

\* the external calls of a handler, by call site: the one that fails, 0 for none
FaultSites == 0 .. 18

(***************************************************************************)
(* The store's queries and writes.                                         *)
(***************************************************************************)
\* get_billing_customer_by_stripe_customer_id: row id, 0 for None
get_billing_customer_by_stripe_customer_id(customers, cus) ==
    LET hits == { i \in DOMAIN customers : customers[i].stripe_customer_id = cus }
    IN  IF hits = {} THEN 0 ELSE CHOOSE i \in hits : \A j \in hits : i <= j

\* create_billing_customer(CreateBillingCustomerParams { user_id, stripe_customer_id })
create_billing_customer(customers, user_id, cus) ==
    Append(customers,
           [ user_id |-> user_id, stripe_customer_id |-> cus,
             trial_started_at |-> NoTime, has_overdue_invoices |-> FALSE ])

\* get_billing_subscription_by_stripe_subscription_id: row id, 0 for None
get_billing_subscription_by_stripe_subscription_id(subscriptions, sub) ==
    LET hits == { i \in DOMAIN subscriptions : subscriptions[i].stripe_subscription_id = sub }
    IN  IF hits = {} THEN 0 ELSE CHOOSE i \in hits : \A j \in hits : i <= j

\* the statuses the store's active-subscription queries count as active
IsActiveStatus(status) == status \in { "active", "trialing" }

ActiveSubscriptions(customers, subscriptions, user_id) ==
    { i \in DOMAIN subscriptions :
        /\ IsActiveStatus(subscriptions[i].stripe_subscription_status)
        /\ subscriptions[i].billing_customer_id \in DOMAIN customers
        /\ customers[subscriptions[i].billing_customer_id].user_id = user_id }

\* get_active_billing_subscription(user_id): row id, 0 for None
get_active_billing_subscription(customers, subscriptions, user_id) ==
    LET hits == ActiveSubscriptions(customers, subscriptions, user_id)
    IN  IF hits = {} THEN 0 ELSE CHOOSE i \in hits : \A j \in hits : i <= j

\* has_active_billing_subscription(user_id)
has_active_billing_subscription(customers, subscriptions, user_id) ==
    ActiveSubscriptions(customers, subscriptions, user_id) # {}

\* mutant: the update leaves out stripe_cancel_at
UpdatedSubscriptionWithoutCancelAt(customer, s) ==
    [ billing_customer_id |-> customer,
      kind |-> s.kind,
      stripe_subscription_id |-> s.id,
      stripe_subscription_status |-> s.status,
      stripe_cancel_at |-> NoTime,
      stripe_cancellation_reason |-> s.reason,
      stripe_current_period_start |-> s.current_period_start,
      stripe_current_period_end |-> s.current_period_end ]

\* the row update_billing_subscription leaves (UpdateBillingSubscriptionParams)
UpdatedSubscription(customer, s) ==
    [ billing_customer_id |-> customer,
      kind |-> s.kind,
      stripe_subscription_id |-> s.id,
      stripe_subscription_status |-> s.status,
      stripe_cancel_at |-> s.cancel_at,
      stripe_cancellation_reason |-> s.reason,
      stripe_current_period_start |-> s.current_period_start,
      stripe_current_period_end |-> s.current_period_end ]

\* the row create_billing_subscription inserts (CreateBillingSubscriptionParams
\* carries no stripe_cancel_at)
CreatedSubscription(customer, s) ==
    [ billing_customer_id |-> customer,
      kind |-> s.kind,
      stripe_subscription_id |-> s.id,
      stripe_subscription_status |-> s.status,
      stripe_cancel_at |-> NoTime,
      stripe_cancellation_reason |-> s.reason,
      stripe_current_period_start |-> s.current_period_start,
      stripe_current_period_end |-> s.current_period_end ]

(***************************************************************************)
(* The handlers, as functions of the store.  A handler run is a record     *)
(* [customers, subscriptions, calls, notified, err, done, customer]: the   *)
(* tables as the run leaves them, the provider calls it issued, the        *)
(* notifications it sent to rpc_server, whether it returned Err, whether   *)
(* it returned early with Ok, and the resolved customer row.               *)
(* fail is the call site whose call fails (FaultSites).                    *)
(***************************************************************************)
Run(customers, subscriptions) ==
    [ customers |-> customers, subscriptions |-> subscriptions, calls |-> << >>,
      notified |-> << >>, err |-> FALSE, done |-> FALSE, customer |-> 0 ]

Err(w) == [ w EXCEPT !.err = TRUE ]

find_or_create_billing_customer(w, cus, fail) ==
    IF fail = 1 THEN Err(w)
    ELSE LET existing == get_billing_customer_by_stripe_customer_id(w.customers, cus)
         IN  IF existing # 0 THEN [ w EXCEPT !.customer = existing ]
             ELSE IF fail = 2 THEN Err(w)
             ELSE LET email == StripeCustomerEmail(cus)
                  IN  IF email = "none" THEN w
                      ELSE IF fail = 3 THEN Err(w)
                      ELSE LET user == get_user_by_email(email)
                           IN  IF user = 0 THEN w
                               ELSE IF fail = 4 THEN Err(w)
                               ELSE [ w EXCEPT
                                        !.customers = create_billing_customer(@, user, cus),
                                        !.customer = Len(w.customers) + 1 ]

\* sync_subscription, lines 931-934
ResolveCustomer(w, s, fail) ==
    LET r == find_or_create_billing_customer(w, s.customer, fail)
    IN  IF r.err \/ r.customer # 0 THEN r ELSE Err(r)

\* sync_subscription, lines 936-952
TrialBookkeeping(w, s, fail) ==
    IF w.err \/ w.done THEN w
    ELSE IF s.kind = "ZedProTrial" /\ s.status = "trialing"
         THEN IF fail = 5 THEN Err(w)
              ELSE [ w EXCEPT !.customers[w.customer].trial_started_at =
                                  s.current_period_start ]
         ELSE w

\* mutant: every cancellation counts as a payment failure
was_canceled(s) == s.status = "canceled"

was_canceled_due_to_payment_failure(s) ==
    s.status = "canceled" /\ s.reason = "payment_failed"

\* mutant: the flag mirrors the snapshot, a snapshot without a payment failure clears it
PaymentFailureFlagMirrors(w, s, fail) ==
    IF w.err \/ w.done THEN w
    ELSE IF fail = 6 THEN Err(w)
         ELSE [ w EXCEPT !.customers[w.customer].has_overdue_invoices =
                             was_canceled_due_to_payment_failure(s) ]

\* sync_subscription, lines 954-973
PaymentFailureFlag(w, s, fail) ==
    IF w.err \/ w.done THEN w
    ELSE IF was_canceled_due_to_payment_failure(s)
         THEN IF fail = 6 THEN Err(w)
              ELSE [ w EXCEPT !.customers[w.customer].has_overdue_invoices = TRUE ]
         ELSE w

\* sync_subscription, lines 1050-1063
CreateRow(w, s, fail) ==
    IF fail = 11 THEN Err(w)
    ELSE [ w EXCEPT !.subscriptions = Append(@, CreatedSubscription(w.customer, s)) ]

\* mutant: a snapshot whose id has a row is inserted as another row
UpdateRowByInsert(w, existing, s, fail) == CreateRow(w, s, fail)

\* sync_subscription, lines 980-1008
UpdateRow(w, existing, s, fail) ==
    IF fail = 8 THEN Err(w)
    ELSE [ w EXCEPT !.subscriptions[existing] = UpdatedSubscription(w.customer, s) ]

\* mutant: every active subscription gives way to the new one
ReplacesAnyPlan(active_kind, kind) == TRUE

\* sync_subscription, lines 1015-1017: a trial takes the place of the free plan
ReplacesFreePlan(active_kind, kind) == active_kind = "ZedFree" /\ kind = "ZedProTrial"

\* mutant: the ignored event is reported as a failure
IgnoreEventFailing(w) == Err(w)

\* sync_subscription, lines 1025-1047: the event is ignored and Ok is returned
IgnoreEvent(w) == [ w EXCEPT !.done = TRUE ]

\* sync_subscription, lines 975-1064
UpsertSubscription(w, s, fail) ==
    IF w.err \/ w.done THEN w
    ELSE IF fail = 7 THEN Err(w)
    ELSE LET existing ==
                 get_billing_subscription_by_stripe_subscription_id(w.subscriptions, s.id)
             user_id == w.customers[w.customer].user_id
         IN  IF existing # 0
             THEN UpdateRow(w, existing, s, fail)
             ELSE IF fail = 9 THEN Err(w)
             ELSE LET active == get_active_billing_subscription(
                                    w.customers, w.subscriptions, user_id)
                  IN  IF active = 0 THEN CreateRow(w, s, fail)
                      ELSE IF ReplacesFreePlan(w.subscriptions[active].kind, s.kind)
                           THEN IF fail = 10 THEN Err(w)
                                ELSE CreateRow(
                                       [ w EXCEPT !.calls = Append(@,
                                           << "cancel_subscription",
                                              w.subscriptions[active].stripe_subscription_id >>) ],
                                       s, fail)
                           ELSE IgnoreEvent(w)

\* app.stripe_billing is configured
stripe_billing == TRUE

\* mutant: the fallback runs for canceled snapshots only
FreePlanFallbackCanceledOnly(w, s, fail) ==
    IF w.err \/ w.done \/ ~stripe_billing THEN w
    ELSE IF s.status \in { "canceled" }
         THEN IF fail = 12 THEN Err(w)
              ELSE IF has_active_billing_subscription(
                          w.customers, w.subscriptions, w.customers[w.customer].user_id)
                   THEN w
                   ELSE IF fail = 13 THEN Err(w)
                        ELSE [ w EXCEPT !.calls = Append(@,
                                 << "subscribe_to_zed_free",
                                    w.customers[w.customer].stripe_customer_id >>) ]
         ELSE w

\* sync_subscription, lines 1066-1083
FreePlanFallback(w, s, fail) ==
    IF w.err \/ w.done \/ ~stripe_billing THEN w
    ELSE IF s.status \in { "canceled", "paused" }
         THEN IF fail = 12 THEN Err(w)
              ELSE IF has_active_billing_subscription(
                          w.customers, w.subscriptions, w.customers[w.customer].user_id)
                   THEN w
                   ELSE IF fail = 13 THEN Err(w)
                        ELSE [ w EXCEPT !.calls = Append(@,
                                 << "subscribe_to_zed_free",
                                    w.customers[w.customer].stripe_customer_id >>) ]
         ELSE w

sync_subscription(customers, subscriptions, s, fail) ==
    FreePlanFallback(
      UpsertSubscription(
        PaymentFailureFlag(
          TrialBookkeeping(
            ResolveCustomer(Run(customers, subscriptions), s, fail),
            s, fail),
          s, fail),
        s, fail),
      s, fail)

\* mutant: a failed notification is returned with `?`
trace_err_propagating(w, failed) == IF failed THEN Err(w) ELSE w

\* .trace_err() on the Result of update_plan_for_user, line 1106: logged and dropped
trace_err(w, failed) == w

\* the notifications after the sync, lines 1102-1112: update_plan_for_user, whose
\* Result is "ok" or "failed", then refresh_llm_tokens_for_user, which returns none
Notify(w, fail) ==
    LET user_id == w.customers[w.customer].user_id
    IN  trace_err(
          [ w EXCEPT !.notified =
              << << "update_plan_for_user", user_id,
                    IF fail = 18 THEN "failed" ELSE "ok" >>,
                 << "refresh_llm_tokens_for_user", user_id >> >> ],
          fail = 18)

\* lines 1088-1115
handle_customer_subscription_event(customers, subscriptions, event, fail) ==
    IF event.object.tag # "Subscription"
    THEN Err(Run(customers, subscriptions))
    ELSE LET w == sync_subscription(customers, subscriptions, event.object, fail)
         IN  IF w.err THEN w ELSE Notify(w, fail)

\* mutant: a customer without an email is reported as a failure
WithoutEmailFailing(w) == Err(w)

\* handle_customer_event, lines 881-884: no email, skipped with Ok
WithoutEmail(w) == w

\* mutant: the Customer row is created whether or not the provider id has one
UpsertCustomerAlwaysCreating(w, user, cus, fail) ==
    IF fail \in { 16, 17 } THEN Err(w)
    ELSE [ w EXCEPT !.customers = create_billing_customer(@, user, cus) ]

\* handle_customer_event, lines 891-913: the row of the provider customer id is left
\* as it is, or created for the account
UpsertCustomer(w, user, cus, fail) ==
    LET existing == get_billing_customer_by_stripe_customer_id(w.customers, cus)
    IN  IF existing # 0
        THEN IF fail = 16 THEN Err(w) ELSE w
        ELSE IF fail = 17 THEN Err(w)
             ELSE [ w EXCEPT !.customers = create_billing_customer(@, user, cus) ]

\* lines 870-916
handle_customer_event(customers, subscriptions, event, fail) ==
    LET w == Run(customers, subscriptions)
        customer == event.object
        email == StripeCustomerEmail(customer.customer)
    IN  IF customer.tag # "Customer" THEN Err(w)
        ELSE IF email = "none" THEN WithoutEmail(w)
        ELSE IF fail = 14 THEN Err(w)
        ELSE LET user == get_user_by_email(email)
             IN  IF user = 0 THEN w
                 ELSE IF fail = 15 THEN Err(w)
                 ELSE UpsertCustomer(w, user, customer.customer, fail)

\* the match on event.type_ of poll_stripe_events, lines 843-855
process_result(customers, subscriptions, event, fail) ==
    CASE event.type_ \in { "CustomerCreated", "CustomerUpdated" } ->
             handle_customer_event(customers, subscriptions, event, fail)
      [] event.type_ \in { "CustomerSubscriptionCreated", "CustomerSubscriptionUpdated",
                           "CustomerSubscriptionPaused", "CustomerSubscriptionResumed",
                           "CustomerSubscriptionDeleted" } ->
             handle_customer_subscription_event(customers, subscriptions, event, fail)
      [] OTHER -> Run(customers, subscriptions)

(***************************************************************************)
(* The provider's event list and the poller's page arithmetic.             *)
(***************************************************************************)
\* events per page: params.limit, scaled down to the model's page length
PageSize == Min(EVENTS_LIMIT_PER_PAGE, PageLen)

\* mutant: the provider reports a further page after every page
ListPageAlwaysMore(served) ==
    LET n == Len(stripe_events)
        count == Min(PageSize, n - served)
    IN  [ data |-> [ i \in 1 .. count |-> stripe_events[n - served - i + 1] ],
          has_more |-> TRUE,
          served |-> served + count ]

\* stripe::Event::list / .next(): the page after `served` events, newest first
ListPage(served) ==
    LET n == Len(stripe_events)
        count == Min(PageSize, n - served)
    IN  [ data |-> [ i \in 1 .. count |-> stripe_events[n - served - i + 1] ],
          has_more |-> n - served - count > 0,
          served |-> served + count ]

NoPage == [ data |-> << >>, has_more |-> FALSE, served |-> 0 ]

\* the ledger's answer for a page: get_processed_stripe_events_by_event_ids
processed_event_ids(ledger, data) ==
    { r.stripe_event_id : r \in ledger } \cap { data[i].id : i \in DOMAIN data }

\* mutant: the page's events are collected without asking the ledger
IsUnprocessedUnfiltered(event, processed_ids) == TRUE

IsUnprocessed(event, processed_ids) == event.id \notin processed_ids

\* the events of the page pushed to unprocessed_events, lines 783-790
UnprocessedInPage(data, processed_ids) ==
    SelectSeq(data, LAMBDA event : IsUnprocessed(event, processed_ids))

\* processed_events_in_page, lines 781-790
ProcessedInPage(data, processed_ids) ==
    Cardinality({ i \in DOMAIN data : data[i].id \in processed_ids })

\* mutant: a page with an unprocessed event resets the count
CountPageConsecutive(pages, processed_events_in_page, events_in_page) ==
    IF processed_events_in_page = events_in_page THEN pages + 1 ELSE 0

\* lines 792-794
CountPage(pages, processed_events_in_page, events_in_page) ==
    IF processed_events_in_page = events_in_page THEN pages + 1 ELSE pages

\* mutant: the loop stops one fully processed page early
StopPaginatingEarly(pages) ==
    pages >= NUMBER_OF_ALREADY_PROCESSED_PAGES_BEFORE_WE_STOP - 1

\* line 797
StopPaginating(pages) ==
    pages >= NUMBER_OF_ALREADY_PROCESSED_PAGES_BEFORE_WE_STOP

\* mutant: the sort compares the creation times only
EventLessByCreated(a, b) == a.created < b.created

\* a.created.cmp(&b.created).then_with(|| a.id.cmp(&b.id)) is Less
EventLess(a, b) ==
    \/ a.created < b.created
    \/ a.created = b.created /\ a.id < b.id

RECURSIVE InsertSorted(_, _)
InsertSorted(event, sorted) ==
    IF sorted = << >> THEN << event >>
    ELSE IF EventLess(event, Head(sorted)) THEN << event >> \o sorted
    ELSE << Head(sorted) >> \o InsertSorted(event, Tail(sorted))

\* unprocessed_events.sort_by(..), line 815 (a stable sort)
RECURSIVE sort_by(_)
sort_by(events) ==
    IF events = << >> THEN << >>
    ELSE InsertSorted(events[Len(events)], sort_by(SubSeq(events, 1, Len(events) - 1)))

\* mutant: an event exactly one day old is dropped too
IsStaleAtHorizon(time, created) == time - one_day >= created

\* a_day_ago.timestamp() > event.created, lines 829-831
IsStale(time, created) == time - one_day > created

\* CreateProcessedStripeEventParams, lines 819-823
processed_event_params(event) ==
    [ stripe_event_id |-> event.id,
      stripe_event_type |-> event_type_to_string(event.type_),
      stripe_event_created_timestamp |-> event.created ]

\* create_processed_stripe_event
create_processed_stripe_event(ledger, params) == ledger \cup { params }

\* mutant: the ledger record is written whatever the handler returned
WritesLedgerAlways(w) == TRUE

\* whether the dispatcher writes the ledger record of a handled event, line 857
WritesLedger(w) == ~w.err

\* the clock's values: the start, one day later to the second, and the second after
Times == { 0, one_day, one_day + 1 }

(***************************************************************************)
(* Actions.                                                                *)
(***************************************************************************)
store_vars == << billing_customers, billing_subscriptions, stripe_calls, rpc_calls >>
tick_locals == << event_pages, pages_of_already_processed_events, unprocessed_events >>

\* the provider records a new event while the poller is at one of `pcs`
ArriveAt(pcs, payloads, max, ids, createds) ==
    /\ pc \in pcs
    /\ Len(stripe_events) < max
    /\ \E p \in payloads, id \in ids, created \in createds :
         /\ \A i \in DOMAIN stripe_events : stripe_events[i].id # id
         /\ created <= now
         /\ stripe_events' = Append(stripe_events,
                [ id |-> id, created |-> created, type_ |-> p[1], object |-> p[2] ])
    /\ UNCHANGED << now, processed_stripe_events, store_vars, pc, tick_locals,
                    tick_result, dispatched, prev_failed, pages_seen >>
    /\ UNCHANGED << usage_vars, race_vars >>

AdvanceClock ==
    /\ \E t \in Times : t > now /\ now' = t
    /\ UNCHANGED << stripe_events, processed_stripe_events, store_vars, pc, tick_locals,
                    tick_result, dispatched, prev_failed, pages_seen >>
    /\ UNCHANGED << usage_vars, race_vars >>

\* the provider records a new event (between two ticks: an event that arrives
\* during a tick is ahead of the paginator's cursor and is seen by the next tick)
Arrive(payloads, max, ids, createds) == ArriveAt({ "idle" }, payloads, max, ids, createds)

\* the ids of the events whose handler returned Err
FailedIn(log) == { log[i].event.id : i \in { j \in DOMAIN log : log[j].outcome = "failed" } }

\* mutant: a tick that returns Err ends the loop
ReturnEndingLoopOnErr(result) ==
    /\ pc' = IF result = "err" THEN "stopped" ELSE "idle"
    /\ tick_result' = result
    /\ event_pages' = NoPage
    /\ pages_of_already_processed_events' = 0
    /\ unprocessed_events' = << >>

\* poll_stripe_events returns to its loop, which logs the error and sleeps (lines
\* 711-720): its locals are dropped
Return(result) ==
    /\ pc' = "idle"
    /\ tick_result' = result
    /\ event_pages' = NoPage
    /\ pages_of_already_processed_events' = 0
    /\ unprocessed_events' = << >>

\* poll_stripe_events up to the first page, lines 750-763
StartTick ==
    /\ pc = "idle"
    /\ dispatched' = << >>
    /\ prev_failed' = FailedIn(dispatched)
    /\ pages_seen' = << >>
    /\ \E listed \in BOOLEAN :
         IF listed
         THEN /\ event_pages' = ListPage(0)
              /\ pages_of_already_processed_events' = 0
              /\ unprocessed_events' = << >>
              /\ pc' = "paging"
              /\ tick_result' = "none"
         ELSE Return("err")
    /\ UNCHANGED << now, stripe_events, processed_stripe_events, store_vars >>
    /\ UNCHANGED << usage_vars, race_vars >>

\* one turn of the pagination loop, lines 765-810, and on leaving it the sort, line 815
ProcessPage ==
    /\ pc = "paging"
    /\ \E read \in BOOLEAN, fetched \in BOOLEAN :
         LET data == event_pages.data
             ids == processed_event_ids(processed_stripe_events, data)
             unprocessed == unprocessed_events \o UnprocessedInPage(data, ids)
             pages == CountPage(pages_of_already_processed_events,
                                ProcessedInPage(data, ids), Len(data))
         IN  IF ~read
             THEN /\ Return("err")
                  /\ UNCHANGED pages_seen
             ELSE /\ pages_seen' = Append(pages_seen, ProcessedInPage(data, ids) = Len(data))
                  /\ IF event_pages.has_more /\ ~StopPaginating(pages)
                     THEN IF fetched
                          THEN /\ event_pages' = ListPage(event_pages.served)
                               /\ pages_of_already_processed_events' = pages
                               /\ unprocessed_events' = unprocessed
                               /\ UNCHANGED << pc, tick_result >>
                          ELSE Return("err")
                     ELSE /\ unprocessed_events' = sort_by(unprocessed)
                          /\ pages_of_already_processed_events' = pages
                          /\ pc' = "handling"
                          /\ UNCHANGED << event_pages, tick_result >>
    /\ UNCHANGED << now, stripe_events, processed_stripe_events, store_vars,
                    dispatched, prev_failed >>
    /\ UNCHANGED << usage_vars, race_vars >>

\* mutant: the ledger write replaces the records there are
MarkProcessedReplacing(event) ==
    \E written \in BOOLEAN :
        IF written
        THEN /\ processed_stripe_events' = { processed_event_params(event) }
             /\ unprocessed_events' = Tail(unprocessed_events)
             /\ UNCHANGED << pc, tick_result, event_pages,
                             pages_of_already_processed_events >>
        ELSE /\ Return("err")
             /\ UNCHANGED processed_stripe_events

\* the ledger write of the dispatch loop, lines 836-838 and 861-863
MarkProcessed(event) ==
    \E written \in BOOLEAN :
        IF written
        THEN /\ processed_stripe_events' =
                    create_processed_stripe_event(processed_stripe_events,
                                                  processed_event_params(event))
             /\ unprocessed_events' = Tail(unprocessed_events)
             /\ UNCHANGED << pc, tick_result, event_pages,
                             pages_of_already_processed_events >>
        ELSE /\ Return("err")
             /\ UNCHANGED processed_stripe_events

\* one turn of the dispatch loop, lines 817-865
HandleEvent ==
    /\ pc = "handling"
    /\ unprocessed_events # << >>
    /\ LET event == Head(unprocessed_events)
       IN  IF IsStale(now, event.created)
           THEN /\ dispatched' = Append(dispatched,
                       [ event |-> event, outcome |-> "stale", at |-> now ])
                /\ UNCHANGED store_vars
                /\ MarkProcessed(event)
           ELSE \E w \in { process_result(billing_customers, billing_subscriptions,
                                          event, fail) : fail \in FaultSites } :
                      /\ billing_customers' = w.customers
                      /\ billing_subscriptions' = w.subscriptions
                      /\ stripe_calls' = w.calls
                      /\ rpc_calls' = w.notified
                      /\ dispatched' = Append(dispatched,
                             [ event |-> event,
                               outcome |-> IF w.err THEN "failed" ELSE "ok",
                               at |-> now ])
                      /\ IF WritesLedger(w)
                         THEN MarkProcessed(event)
                         ELSE /\ unprocessed_events' = Tail(unprocessed_events)
                              /\ UNCHANGED << processed_stripe_events, pc, tick_result,
                                              event_pages,
                                              pages_of_already_processed_events >>
    /\ UNCHANGED << now, stripe_events, prev_failed, pages_seen >>
    /\ UNCHANGED << usage_vars, race_vars >>

\* poll_stripe_events returns Ok(()), line 867
EndTick ==
    /\ pc = "handling"
    /\ unprocessed_events = << >>
    /\ Return("ok")
    /\ UNCHANGED << now, stripe_events, processed_stripe_events, store_vars,
                    dispatched, prev_failed, pages_seen >>
    /\ UNCHANGED << usage_vars, race_vars >>

(***************************************************************************)
(* Specifications.                                                         *)
(***************************************************************************)
InitStore(time, customers, subscriptions) ==
    /\ now = time
    /\ stripe_events = << >>
    /\ processed_stripe_events = {}
    /\ billing_customers = customers
    /\ billing_subscriptions = subscriptions
    /\ stripe_calls = << >>
    /\ rpc_calls = << >>
    /\ pc = "idle"
    /\ event_pages = NoPage
    /\ pages_of_already_processed_events = 0
    /\ unprocessed_events = << >>
    /\ tick_result = "none"
    /\ dispatched = << >>
    /\ prev_failed = {}
    /\ pages_seen = << >>
    /\ usage_pc = "idle"
    /\ staff_user_ids = {}
    /\ usage_meters_by_user_id = << >>
    /\ zed_pro_subscriptions = << >>
    /\ known_models = {}
    /\ usage_next = 1
    /\ usage_calls = << >>
    /\ usage_outcome = "none"
    /\ usage_failed = FALSE
    /\ usage_result = "none"
    /\ race_snapshot = NoSnapshot
    /\ race = [ p \in Syncs |-> NotStarted ]

\* the tasks are spawned over an empty store
InitAt(time) == InitStore(time, << >>, << >>)

Init == InitAt(0)

\* the provider stamps an event with the time it records it
ArriveEvent == Arrive(EventPayloads, MaxEvents, { Len(stripe_events) + 1 }, { now })

Next ==
    \/ ArriveEvent
    \/ AdvanceClock
    \/ StartTick
    \/ ProcessPage
    \/ HandleEvent
    \/ EndTick

Spec == Init /\ [][Next]_vars

\* a long event log of events without effect on the rows, the clock standing still
ArrivePaged == Arrive(PagePayloads, MaxPagedEvents, { Len(stripe_events) + 1 }, { now })

NextPages ==
    \/ ArrivePaged
    \/ StartTick
    \/ ProcessPage
    \/ HandleEvent
    \/ EndTick

SpecPages == Init /\ [][NextPages]_vars

\* events whose list order, creation times and ids are independent of each other
InitOrder == InitAt(2)

ArriveUnordered == Arrive(OrderPayloads, MaxOrderEvents, 1 .. MaxOrderEvents, { 1, 2 })

NextOrder ==
    \/ ArriveUnordered
    \/ StartTick
    \/ ProcessPage
    \/ HandleEvent
    \/ EndTick

SpecOrder == InitOrder /\ [][NextOrder]_vars

\* the provider records one new event of the account's life and the next tick
\* finds it alone in its batch: the turn of the dispatch loop for it, lines 817-865
\* (the clock stands still, no event is stale)
SyncEvent ==
    /\ pc = "idle"
    /\ Len(stripe_events) < MaxSyncEvents
    /\ \E p \in SyncPayloads :
         LET event == [ id |-> Len(stripe_events) + 1, created |-> now,
                        type_ |-> p[1], object |-> p[2] ]
         IN  /\ stripe_events' = Append(stripe_events, event)
             /\ \E w \in { process_result(billing_customers, billing_subscriptions,
                                           event, fail) : fail \in FaultSites },
                   written \in BOOLEAN :
                  /\ billing_customers' = w.customers
                  /\ billing_subscriptions' = w.subscriptions
                  /\ stripe_calls' = w.calls
                  /\ rpc_calls' = w.notified
                  /\ dispatched' = << [ event |-> event,
                                        outcome |-> IF w.err THEN "failed" ELSE "ok",
                                        at |-> now ] >>
                  /\ IF WritesLedger(w) /\ written
                     THEN processed_stripe_events' =
                              create_processed_stripe_event(processed_stripe_events,
                                                            processed_event_params(event))
                     ELSE UNCHANGED processed_stripe_events
                  /\ tick_result' = IF WritesLedger(w) /\ ~written THEN "err" ELSE "ok"
    /\ UNCHANGED << now, pc, tick_locals, prev_failed, pages_seen >>
    /\ UNCHANGED << usage_vars, race_vars >>

NextSync == SyncEvent

SpecSync == Init /\ [][NextSync]_vars

(***************************************************************************)
(* The usage sync, sync_model_request_usage_with_stripe.                   *)
(***************************************************************************)
Users == 1 .. MaxUsageAccounts

\* the Customer and Subscription rows of an account, as
\* get_active_zed_pro_billing_subscriptions returns them
Account(user_id) ==
    [ user_id |-> user_id,
      stripe_customer_id |-> << "cus", user_id >>,
      stripe_subscription_id |-> << "sub", user_id >> ]

\* what get_active_zed_pro_billing_subscriptions can return: one entry per account,
\* in any order
SubscriptionLists ==
    { s \in UNION { [ 1 .. n -> Users ] : n \in 0 .. MaxUsageAccounts } :
        \A i, j \in DOMAIN s : s[i] = s[j] => i = j }

\* the usage meters an account can have: none, or one with requests and one with none
MeterTables ==
    { << >>,
      << [ model |-> "claude-opus-4", mode |-> "Normal", requests |-> 2 ],
         [ model |-> "claude-sonnet-4", mode |-> "Max", requests |-> 0 ] >> }

\* lines 1414-1422
model_mode_combinations ==
    << << "claude-opus-4", "Max" >>,
       << "claude-opus-4", "Normal" >>,
       << "claude-sonnet-4", "Max" >>,
       << "claude-sonnet-4", "Normal" >>,
       << "claude-3-7-sonnet", "Max" >>,
       << "claude-3-7-sonnet", "Normal" >>,
       << "claude-3-5-sonnet", "Normal" >> >>

\* the models the usage database can hold
ModelSets ==
    { { "claude-opus-4", "claude-sonnet-4", "claude-3-7-sonnet", "claude-3-5-sonnet" },
      { "claude-opus-4", "claude-sonnet-4", "claude-3-7-sonnet" } }

\* the match of lines 1449-1472 over the prices of lines 1392-1412:
\* << lookup key of the price, meter_event_name >>
PriceAndMeter(model, mode) ==
    CASE model = "claude-opus-4" /\ mode = "Normal" ->
             << "claude-opus-4-requests", "claude_opus_4/requests" >>
      [] model = "claude-opus-4" /\ mode = "Max" ->
             << "claude-opus-4-requests-max", "claude_opus_4/requests/max" >>
      [] model = "claude-sonnet-4" /\ mode = "Normal" ->
             << "claude-sonnet-4-requests", "claude_sonnet_4/requests" >>
      [] model = "claude-sonnet-4" /\ mode = "Max" ->
             << "claude-sonnet-4-requests-max", "claude_sonnet_4/requests/max" >>
      [] model = "claude-3-5-sonnet" ->
             << "claude-3-5-sonnet-requests", "claude_3_5_sonnet/requests" >>
      [] model = "claude-3-7-sonnet" /\ mode = "Normal" ->
             << "claude-3-7-sonnet-requests", "claude_3_7_sonnet/requests" >>
      [] model = "claude-3-7-sonnet" /\ mode = "Max" ->
             << "claude-3-7-sonnet-requests-max", "claude_3_7_sonnet/requests/max" >>
      [] OTHER -> << "unsupported", "unsupported" >>

\* mutant: the meter is found by its model alone
model_requests_of_any_mode(usage_meters, model, mode) ==
    LET hits == { i \in DOMAIN usage_meters : usage_meters[i].model = model }
    IN  IF hits = {} THEN 0
        ELSE usage_meters[CHOOSE i \in hits : \A j \in hits : i <= j].requests

\* lines 1474-1481: the requests of the first meter of the pair, 0 without one
model_requests(usage_meters, model, mode) ==
    LET hits == { i \in DOMAIN usage_meters :
                    usage_meters[i].model = model /\ usage_meters[i].mode = mode }
    IN  IF hits = {} THEN 0
        ELSE usage_meters[CHOOSE i \in hits : \A j \in hits : i <= j].requests

\* the provider calls of an account, by position: the one that fails, 0 for none
UsageFaultSites == 0 .. 2 * Len(model_mode_combinations)

\* mutant: a failed call is skipped and the block goes on
IssueCallIgnoringFailure(w, call, fail) ==
    IF w.err THEN w
    ELSE IF Len(w.calls) + 1 = fail THEN [ w EXCEPT !.calls = Append(@, << "failed" >>) ]
    ELSE [ w EXCEPT !.calls = Append(@, call) ]

\* a provider call followed by `?`: w is [calls, err]
IssueCall(w, call, fail) ==
    IF w.err THEN w
    ELSE IF Len(w.calls) + 1 = fail THEN [ w EXCEPT !.err = TRUE ]
    ELSE [ w EXCEPT !.calls = Append(@, call) ]

\* mutant: a pair without requests is skipped
SyncPairSkippingZero(w, account, usage_meters, models, pair, fail) ==
    IF w.err \/ pair[1] \notin models THEN w
    ELSE LET price_and_meter == PriceAndMeter(pair[1], pair[2])
             requests == model_requests(usage_meters, pair[1], pair[2])
         IN  IF price_and_meter[1] = "unsupported" THEN [ w EXCEPT !.err = TRUE ]
             ELSE IF requests > 0
                  THEN IssueCall(
                         IssueCall(w, << "subscribe_to_price",
                                         account.stripe_subscription_id,
                                         price_and_meter[1] >>, fail),
                         << "bill_model_request_usage", account.stripe_customer_id,
                            price_and_meter[2], requests >>, fail)
                  ELSE w

\* one turn of the loop over model_mode_combinations, lines 1441-1497
SyncPair(w, account, usage_meters, models, pair, fail) ==
    IF w.err \/ pair[1] \notin models THEN w
    ELSE LET price_and_meter == PriceAndMeter(pair[1], pair[2])
             requests == model_requests(usage_meters, pair[1], pair[2])
         IN  IF price_and_meter[1] = "unsupported" THEN [ w EXCEPT !.err = TRUE ]
             ELSE IssueCall(
                    IF requests > 0
                    THEN IssueCall(w, << "subscribe_to_price",
                                         account.stripe_subscription_id,
                                         price_and_meter[1] >>, fail)
                    ELSE w,
                    << "bill_model_request_usage", account.stripe_customer_id,
                       price_and_meter[2], requests >>, fail)

RECURSIVE SyncPairs(_, _, _, _, _, _)
\* the loop of lines 1441-1497 from pair k on
SyncPairs(w, account, usage_meters, models, k, fail) ==
    IF k > Len(model_mode_combinations) THEN w
    ELSE SyncPairs(SyncPair(w, account, usage_meters, models,
                            model_mode_combinations[k], fail),
                   account, usage_meters, models, k + 1, fail)

\* the maybe! block of a non-staff account, lines 1434-1499
SyncAccountUsage(account, usage_meters, models, fail) ==
    SyncPairs([ calls |-> << >>, err |-> FALSE ], account, usage_meters, models, 1, fail)

\* mutant: the account's error is propagated with `?`
PropagatesErrorOfAccount(err) == err

\* .log_err() on the account's block, lines 1500-1502: the error is logged and dropped
PropagatesError(err) == FALSE

\* sync_model_request_usage_with_stripe returns: its locals are dropped
UsageReturn(result) ==
    /\ usage_pc' = "idle"
    /\ usage_result' = result
    /\ staff_user_ids' = {}
    /\ usage_meters_by_user_id' = << >>
    /\ zed_pro_subscriptions' = << >>
    /\ known_models' = {}
    /\ usage_next' = 1

\* the loads before the account loop, lines 1364-1426; any of them failing returns Err
StartUsageSync ==
    /\ usage_pc = "idle"
    /\ usage_calls' = << >>
    /\ usage_outcome' = "none"
    /\ usage_failed' = FALSE
    /\ \E loaded \in BOOLEAN :
         IF loaded
         THEN \E staff \in SUBSET Users, meters \in [ Users -> MeterTables ],
                 list \in SubscriptionLists, models \in ModelSets :
                /\ staff_user_ids' = staff
                /\ usage_meters_by_user_id' = meters
                /\ zed_pro_subscriptions' = [ i \in DOMAIN list |-> Account(list[i]) ]
                /\ known_models' = models
                /\ usage_next' = 1
                /\ usage_pc' = "syncing"
                /\ usage_result' = "none"
         ELSE UsageReturn("err")
    /\ UNCHANGED << poll_vars, race_vars >>

\* mutant: the account loop does not ask the staff snapshot
SyncAccountBillingStaff ==
    /\ usage_pc = "syncing"
    /\ usage_next <= Len(zed_pro_subscriptions)
    /\ LET account == zed_pro_subscriptions[usage_next]
       IN  \E w \in { SyncAccountUsage(account,
                                        usage_meters_by_user_id[account.user_id],
                                        known_models, fail) : fail \in UsageFaultSites } :
             /\ usage_calls' = w.calls
             /\ usage_outcome' = IF account.user_id \in staff_user_ids THEN "staff"
                                  ELSE IF w.err THEN "failed" ELSE "ok"
             /\ usage_failed' = (usage_failed \/ w.err)
             /\ usage_next' = usage_next + 1
             /\ UNCHANGED << usage_pc, staff_user_ids, usage_meters_by_user_id,
                             zed_pro_subscriptions, known_models, usage_result >>
    /\ UNCHANGED << poll_vars, race_vars >>

\* one turn of the account loop, lines 1428-1503
SyncAccount ==
    /\ usage_pc = "syncing"
    /\ usage_next <= Len(zed_pro_subscriptions)
    /\ LET account == zed_pro_subscriptions[usage_next]
       IN  \E w \in IF account.user_id \in staff_user_ids
                    THEN { [ calls |-> << >>, err |-> FALSE ] }
                    ELSE { SyncAccountUsage(account,
                                            usage_meters_by_user_id[account.user_id],
                                            known_models, fail) : fail \in UsageFaultSites } :
             /\ usage_calls' = w.calls
             /\ usage_outcome' = IF account.user_id \in staff_user_ids THEN "staff"
                                  ELSE IF w.err THEN "failed" ELSE "ok"
             /\ usage_failed' = (usage_failed \/ w.err)
             /\ IF PropagatesError(w.err)
                THEN UsageReturn("err")
                ELSE /\ usage_next' = usage_next + 1
                     /\ UNCHANGED << usage_pc, staff_user_ids, usage_meters_by_user_id,
                                     zed_pro_subscriptions, known_models, usage_result >>
    /\ UNCHANGED << poll_vars, race_vars >>

\* mutant: the usage sync prunes the processed-event ledger when it is over
EndUsageSyncPruningLedger ==
    /\ usage_pc = "syncing"
    /\ usage_next > Len(zed_pro_subscriptions)
    /\ UsageReturn("ok")
    /\ UNCHANGED << usage_calls, usage_outcome, usage_failed >>
    /\ processed_stripe_events' = {}
    /\ UNCHANGED << now, stripe_events, store_vars, pc, tick_locals, tick_result,
                    dispatched, prev_failed, pages_seen >>
    /\ UNCHANGED race_vars

\* the account loop is over, lines 1505-1510
EndUsageSync ==
    /\ usage_pc = "syncing"
    /\ usage_next > Len(zed_pro_subscriptions)
    /\ UsageReturn("ok")
    /\ UNCHANGED << usage_calls, usage_outcome, usage_failed >>
    /\ UNCHANGED << poll_vars, race_vars >>

NextUsage ==
    \/ StartUsageSync
    \/ SyncAccount
    \/ EndUsageSync

SpecUsage == Init /\ [][NextUsage]_vars

\* the two periodic loops side by side, each spawned as its own task (lines 710 and
\* 1342): the poller over a short event log, the usage sync over its accounts
ArriveLoop == Arrive(OrderPayloads, MaxLoopEvents, { Len(stripe_events) + 1 }, { now })

NextLoops ==
    \/ ArriveLoop
    \/ StartTick
    \/ ProcessPage
    \/ HandleEvent
    \/ EndTick
    \/ StartUsageSync
    \/ SyncAccount
    \/ EndUsageSync

\* the two tasks are spawned over a store that holds the Customer row of the account
\* and its active paid subscription, as earlier runs left them
InitLoops ==
    InitStore(0,
              create_billing_customer(<< >>, 1, "cus_1"),
              << CreatedSubscription(1, SubscriptionObject("sub_1", "cus_1", "active",
                                                           "ZedPro", 1, NoTime, "none")) >>)

SpecLoops == InitLoops /\ [][NextLoops]_vars

(***************************************************************************)
(* The poller over a list that shifts under it: an event recorded between  *)
(* two page fetches moves the older events one place down, and the next    *)
(* page starts with the event the last page ended with.                    *)
(***************************************************************************)
ArriveShifting ==
    ArriveAt({ "idle", "paging" }, PagePayloads, MaxOrderEvents,
             { Len(stripe_events) + 1 }, { now })

NextShift ==
    \/ ArriveShifting
    \/ StartTick
    \/ ProcessPage
    \/ HandleEvent
    \/ EndTick

SpecShift == Init /\ [][NextShift]_vars

(***************************************************************************)
(* Two concurrent syncs of one snapshot: the handler of a poll tick and    *)
(* the manual sync request both call sync_subscription, and each store     *)
(* call of it is a step of its own.  The calls succeed unless the store    *)
(* rejects an insert for a unique key.                                     *)
(***************************************************************************)
\* the stores the syncs can start from: empty, the account's Customer row, and that
\* row with an active free plan
RaceStores ==
    { [ customers |-> << >>, subscriptions |-> << >> ],
      [ customers |-> create_billing_customer(<< >>, 1, "cus_1"),
        subscriptions |-> << >> ],
      [ customers |-> create_billing_customer(<< >>, 1, "cus_1"),
        subscriptions |->
            << CreatedSubscription(1, SubscriptionObject("sub_0", "cus_1", "active",
                                                         "ZedFree", 1, NoTime, "none")) >> ] }

\* the snapshots of sub_1 the provider can hold
RaceSnapshots ==
    { SubscriptionObject("sub_1", "cus_1", "trialing", "ZedProTrial", 1, NoTime, "none"),
      SubscriptionObject("sub_1", "cus_1", "active", "ZedPro", 2, 5, "none"),
      SubscriptionObject("sub_1", "cus_1", "canceled", "ZedPro", 2, NoTime,
                         "payment_failed") }

\* get_billing_customer_by_user_id: row id, 0 for None
get_billing_customer_by_user_id(customers, user_id) ==
    LET hits == { i \in DOMAIN customers : customers[i].user_id = user_id }
    IN  IF hits = {} THEN 0 ELSE CHOOSE i \in hits : \A j \in hits : i <= j

\* the unique key of billing_customers on the provider customer id: an insert of a
\* second row with this id is rejected
stripe_customer_id_taken(customers, cus) ==
    \E i \in DOMAIN customers : customers[i].stripe_customer_id = cus

\* mutant: billing_subscriptions has no unique key on the provider subscription id
stripe_subscription_id_free(subscriptions, sub) == FALSE

\* the unique key of billing_subscriptions on the provider subscription id: an insert
\* of a second row with this id is rejected
stripe_subscription_id_taken(subscriptions, sub) ==
    \E i \in DOMAIN subscriptions : subscriptions[i].stripe_subscription_id = sub

race_frame == << now, stripe_events, processed_stripe_events, rpc_calls, pc, tick_locals,
                 tick_result, dispatched, prev_failed, pages_seen >>

\* the sync p moves on
Goto(p, label) == race' = [ race EXCEPT ![p].pc = label ]

\* the sync p returns
Finish(p, result) == race' = [ race EXCEPT ![p].pc = "done", ![p].result = result ]

\* the run record of the sync p over the store as it stands
RunOf(p) ==
    [ Run(billing_customers, billing_subscriptions) EXCEPT !.customer = race[p].customer ]

\* the provider holds a snapshot of sub_1; the tick's handler calls sync_subscription
\* with it (line 1100) while a manual sync request arrives (line 624)
RaceBegin ==
    /\ race_snapshot = NoSnapshot
    /\ \E s \in RaceSnapshots : race_snapshot' = s
    /\ race' = [ p \in Syncs |->
                   [ NotStarted EXCEPT !.pc = IF p = "manual" THEN "request" ELSE "find" ] ]
    /\ UNCHANGED << billing_customers, billing_subscriptions, stripe_calls >>
    /\ UNCHANGED << race_frame, usage_vars >>

\* sync_billing_subscription up to its call of sync_subscription, lines 636-656: the
\* request fails without the account's Customer row
ManualRequest ==
    /\ race["manual"].pc = "request"
    /\ IF get_billing_customer_by_user_id(billing_customers, 1) = 0
       THEN Finish("manual", "err")
       ELSE Goto("manual", "find")
    /\ UNCHANGED << billing_customers, billing_subscriptions, stripe_calls, race_snapshot >>
    /\ UNCHANGED << race_frame, usage_vars >>

\* find_or_create_billing_customer, the lookup, lines 1301-1307
RaceFind ==
    \E p \in Syncs :
        /\ race[p].pc = "find"
        /\ LET existing == get_billing_customer_by_stripe_customer_id(
                                billing_customers, race_snapshot.customer)
           IN  race' = [ race EXCEPT ![p].customer = existing,
                                     ![p].pc = IF existing # 0 THEN "trial"
                                               ELSE "create_customer" ]
        /\ UNCHANGED << billing_customers, billing_subscriptions, stripe_calls,
                        race_snapshot >>
        /\ UNCHANGED << race_frame, usage_vars >>

\* find_or_create_billing_customer, the creation, lines 1309-1327
RaceCreateCustomer ==
    \E p \in Syncs :
        /\ race[p].pc = "create_customer"
        /\ LET cus == race_snapshot.customer
               user == get_user_by_email(StripeCustomerEmail(cus))
           IN  IF user = 0 \/ stripe_customer_id_taken(billing_customers, cus)
               THEN /\ Finish(p, "err")
                    /\ UNCHANGED billing_customers
               ELSE /\ billing_customers' = create_billing_customer(billing_customers,
                                                                     user, cus)
                    /\ race' = [ race EXCEPT ![p].customer = Len(billing_customers) + 1,
                                              ![p].pc = "trial" ]
        /\ UNCHANGED << billing_subscriptions, stripe_calls, race_snapshot >>
        /\ UNCHANGED << race_frame, usage_vars >>

\* sync_subscription, lines 936-952
RaceTrial ==
    \E p \in Syncs :
        /\ race[p].pc = "trial"
        /\ billing_customers' = TrialBookkeeping(RunOf(p), race_snapshot, 0).customers
        /\ Goto(p, "flag")
        /\ UNCHANGED << billing_subscriptions, stripe_calls, race_snapshot >>
        /\ UNCHANGED << race_frame, usage_vars >>

\* sync_subscription, lines 954-973
RaceFlag ==
    \E p \in Syncs :
        /\ race[p].pc = "flag"
        /\ billing_customers' = PaymentFailureFlag(RunOf(p), race_snapshot, 0).customers
        /\ Goto(p, "lookup")
        /\ UNCHANGED << billing_subscriptions, stripe_calls, race_snapshot >>
        /\ UNCHANGED << race_frame, usage_vars >>

\* sync_subscription, the lookup of the row, lines 975-979
RaceLookup ==
    \E p \in Syncs :
        /\ race[p].pc = "lookup"
        /\ LET existing == get_billing_subscription_by_stripe_subscription_id(
                                billing_subscriptions, race_snapshot.id)
           IN  race' = [ race EXCEPT ![p].existing = existing,
                                     ![p].pc = IF existing # 0 THEN "update" ELSE "active" ]
        /\ UNCHANGED << billing_customers, billing_subscriptions, stripe_calls,
                        race_snapshot >>
        /\ UNCHANGED << race_frame, usage_vars >>

\* sync_subscription, the update of the row found, lines 980-1008 (the fallback
\* after it, lines 1066-1083, writes no row)
RaceUpdate ==
    \E p \in Syncs :
        /\ race[p].pc = "update"
        /\ billing_subscriptions' =
               [ billing_subscriptions EXCEPT ![race[p].existing] =
                     UpdatedSubscription(race[p].customer, race_snapshot) ]
        /\ Finish(p, "ok")
        /\ UNCHANGED << billing_customers, stripe_calls, race_snapshot >>
        /\ UNCHANGED << race_frame, usage_vars >>

\* sync_subscription, the conflict policy, lines 1010-1048
RaceActive ==
    \E p \in Syncs :
        /\ race[p].pc = "active"
        /\ LET active == get_active_billing_subscription(
                              billing_customers, billing_subscriptions,
                              billing_customers[race[p].customer].user_id)
           IN  IF active = 0 THEN Goto(p, "insert")
               ELSE IF ReplacesFreePlan(billing_subscriptions[active].kind,
                                        race_snapshot.kind)
                    THEN race' = [ race EXCEPT ![p].existing = active, ![p].pc = "cancel" ]
                    ELSE Finish(p, "ok")
        /\ UNCHANGED << billing_customers, billing_subscriptions, stripe_calls,
                        race_snapshot >>
        /\ UNCHANGED << race_frame, usage_vars >>

\* sync_subscription, the cancellation of the free plan at the provider, lines 1015-1024
RaceCancel ==
    \E p \in Syncs :
        /\ race[p].pc = "cancel"
        /\ stripe_calls' = Append(stripe_calls,
               << "cancel_subscription",
                  billing_subscriptions[race[p].existing].stripe_subscription_id >>)
        /\ race' = [ race EXCEPT ![p].existing = 0, ![p].pc = "insert" ]
        /\ UNCHANGED << billing_customers, billing_subscriptions, race_snapshot >>
        /\ UNCHANGED << race_frame, usage_vars >>

\* sync_subscription, the creation of the row, lines 1050-1063
RaceInsert ==
    \E p \in Syncs :
        /\ race[p].pc = "insert"
        /\ IF stripe_subscription_id_taken(billing_subscriptions, race_snapshot.id)
           THEN /\ Finish(p, "err")
                /\ UNCHANGED billing_subscriptions
           ELSE /\ billing_subscriptions' = CreateRow(RunOf(p), race_snapshot, 0).subscriptions
                /\ Finish(p, "ok")
        /\ UNCHANGED << billing_customers, stripe_calls, race_snapshot >>
        /\ UNCHANGED << race_frame, usage_vars >>

InitRace == \E store \in RaceStores : InitStore(0, store.customers, store.subscriptions)

NextRace ==
    \/ RaceBegin
    \/ ManualRequest
    \/ RaceFind
    \/ RaceCreateCustomer
    \/ RaceTrial
    \/ RaceFlag
    \/ RaceLookup
    \/ RaceUpdate
    \/ RaceActive
    \/ RaceCancel
    \/ RaceInsert

SpecRace == InitRace /\ [][NextRace]_vars

(***************************************************************************)
(* Properties.                                                             *)
(***************************************************************************)
LedgerIds == { r.stripe_event_id : r \in processed_stripe_events }

ReachedIds(log) == { log[i].event.id : i \in DOMAIN log }

\* a step of the dispatch loop: it reaches one event
Reaches == Len(dispatched') = Len(dispatched) + 1

\* C1: handling an event a second time leaves the Customer and Subscription rows as
\* the first handling left them, for every event of the provider's vocabulary and
\* every reachable store (the first handling may create the row the second updates).
C1_IdempotentReplay ==
    \A p \in EventPayloads :
        LET event == [ id |-> 1, created |-> now, type_ |-> p[1], object |-> p[2] ]
            once == process_result(billing_customers, billing_subscriptions, event, 0)
            twice == process_result(once.customers, once.subscriptions, event, 0)
        IN  ~once.err =>
                /\ ~twice.err
                /\ twice.customers = once.customers
                /\ twice.subscriptions = once.subscriptions

\* C2: an event with a record in the ledger is never reached by the dispatch loop:
\* every event the loop reaches (to drop it as stale or to pass it to its handler)
\* has no ledger record at that step, and records are never removed, so it had none
\* when its page was checked.
C2_ProcessedNeverDispatched ==
    [][ /\ processed_stripe_events \subseteq processed_stripe_events'
        /\ Reaches => Last(dispatched').event.id \notin LedgerIds ]_vars

\* C2 witness: a tick ran to its end over two pages, left the event that has a ledger
\* record from an earlier tick alone and passed the other one to its handler.
C2_Witness ==
    /\ pc = "idle" /\ tick_result = "ok"
    /\ Len(pages_seen) = 2 /\ Len(dispatched) = 1
    /\ dispatched[1].outcome = "ok"
    /\ \E i \in DOMAIN stripe_events :
         /\ stripe_events[i].id \in LedgerIds
         /\ stripe_events[i].id \notin ReachedIds(dispatched)
         /\ stripe_events[i].type_ = "CustomerSubscriptionCreated"

\* C3: a ledger record is written only by the step that reached its event, and only
\* when the event was dropped as stale or its handler returned Ok; an event whose
\* handler returned Err in this tick has no ledger record.
C3_LedgerOnlyAfterSuccess ==
    [][ /\ \A r \in processed_stripe_events' \ processed_stripe_events :
             /\ Reaches
             /\ Last(dispatched').event.id = r.stripe_event_id
             /\ Last(dispatched').outcome \in { "ok", "stale" }
        /\ \A i \in DOMAIN dispatched' :
             dispatched'[i].outcome = "failed" => dispatched'[i].event.id \notin LedgerIds' ]_vars

\* C3 witness: in one tick a handler failed and left no record, and another
\* succeeded and its record is in the ledger.
C3_Witness ==
    \E i, j \in DOMAIN dispatched :
        /\ dispatched[i].outcome = "failed" /\ dispatched[i].event.id \notin LedgerIds
        /\ dispatched[j].outcome = "ok" /\ dispatched[j].event.id \in LedgerIds

\* C4: once a handler has failed in a tick, every later event of the batch is still
\* processed: the step at the next event reaches it, stays in the dispatch loop, and
\* leaves the ledger record of an event whose handler succeeded.
C4_FailureDoesNotBlock ==
    [][ ( /\ pc = "handling"
          /\ FailedIn(dispatched) # {}
          /\ unprocessed_events # << >>
          /\ << pc, dispatched >>' # << pc, dispatched >> )
        => /\ Reaches
           /\ Last(dispatched').event = Head(unprocessed_events)
           /\ Last(dispatched').outcome = "ok" =>
                  Last(dispatched').event.id \in LedgerIds'
           /\ pc' = "handling" ]_vars

\* C5: an event whose handler failed in a tick is reached again by the next tick
\* (stated for the ticks that return Ok; the clock stands still under SpecPages, so
\* no event becomes stale).
C5_RetriedNextTick ==
    (pc = "idle" /\ tick_result = "ok") => prev_failed \subseteq ReachedIds(dispatched)

KeyLess(a, b) ==
    \/ a.created < b.created
    \/ a.created = b.created /\ a.id < b.id

\* C6: within a tick the events are reached one at a time in ascending order of
\* (created, id): the events reached so far are in that order, and every event still
\* waiting in the batch comes after all of them.
C6_AscendingOrder ==
    /\ \A i, j \in DOMAIN dispatched :
         i < j => KeyLess(dispatched[i].event, dispatched[j].event)
    /\ \A i \in DOMAIN dispatched, k \in DOMAIN unprocessed_events :
         pc = "handling" => KeyLess(dispatched[i].event, unprocessed_events[k])
    /\ \A i, k \in DOMAIN unprocessed_events :
         (pc = "handling" /\ i < k) => KeyLess(unprocessed_events[i], unprocessed_events[k])

\* C6 witness: the pages returned {created=2,id=B}, {created=1,id=A}, {created=1,id=C}
\* in this order (A=1, B=2, C=3) and the tick processed A, C, B.
C6_Witness ==
    /\ Len(stripe_events) = 3
    /\ << stripe_events[3].id, stripe_events[3].created >> = << 2, 2 >>
    /\ << stripe_events[2].id, stripe_events[2].created >> = << 1, 1 >>
    /\ << stripe_events[1].id, stripe_events[1].created >> = << 3, 1 >>
    /\ Len(dispatched) = 3
    /\ << dispatched[1].event.id, dispatched[2].event.id, dispatched[3].event.id >>
           = << 1, 3, 2 >>

\* the provider's page k of the log as it stands (1-based)
PageOfLog(k) == ListPage((k - 1) * PageSize).data

HasNewEvents(data) == \E i \in DOMAIN data : data[i].id \notin LedgerIds

Batch == ReachedIds(dispatched) \cup { unprocessed_events[i].id : i \in DOMAIN unprocessed_events }

FullyProcessedSeen == Cardinality({ i \in DOMAIN pages_seen : pages_seen[i] })

\* C7 as stated: when pages 1 to 4 are fully processed and page 5 holds new events,
\* the pagination that has ended has checked page 5.
C7_FifthPageFetched ==
    ( /\ pc = "handling"
      /\ Len(pages_seen) >= 4
      /\ \A i \in 1 .. 4 : pages_seen[i]
      /\ HasNewEvents(PageOfLog(5)) )
    => Len(pages_seen) >= 5

\* C7 amended: when pages 1 to 3 are fully processed and page 4 holds new events, the
\* pagination that has ended has checked page 4 and the batch holds its new events;
\* when pages 1 to 4 are fully processed and a fifth page exists, it ended at page 4.
C7_FourthPageFetched ==
    pc = "handling" =>
        /\ ( /\ Len(pages_seen) >= 3
             /\ \A i \in 1 .. 3 : pages_seen[i]
             /\ HasNewEvents(PageOfLog(4)) )
           => /\ Len(pages_seen) >= 4
              /\ \A i \in DOMAIN PageOfLog(4) :
                   PageOfLog(4)[i].id \notin LedgerIds => PageOfLog(4)[i].id \in Batch
        /\ ( /\ Len(pages_seen) >= 4
             /\ \A i \in 1 .. 4 : pages_seen[i]
             /\ PageOfLog(5) # << >> )
           => Len(pages_seen) = 4

\* C7 witness: pages 1 to 3 were fully processed, page 4 was fetched and its new
\* event is in the batch.
C7_Witness ==
    /\ pc = "handling"
    /\ pages_seen = << TRUE, TRUE, TRUE, FALSE >>
    /\ Len(unprocessed_events) = 1
    /\ unprocessed_events[1] = PageOfLog(4)[1]

RECURSIVE LongestRun(_)
\* the length of the longest run of consecutive fully processed pages
LongestRun(seen) ==
    IF seen = << >> THEN 0
    ELSE LET n == Len(seen)
             tail == CHOOSE k \in 0 .. n :
                        /\ \A i \in (n - k + 1) .. n : seen[i]
                        /\ k < n => ~seen[n - k]
         IN  IF tail > LongestRun(SubSeq(seen, 1, n - 1))
             THEN tail ELSE LongestRun(SubSeq(seen, 1, n - 1))

MorePagesRemain == Len(pages_seen) * PageSize < Len(stripe_events)

C9_StaleDrop ==
    [][ Reaches =>
          LET d == Last(dispatched')
          IN  /\ (d.outcome = "stale") <=> (now - d.event.created > 24 * 60 * 60)
              /\ d.outcome = "stale" =>
                   /\ billing_customers' = billing_customers
                   /\ billing_subscriptions' = billing_subscriptions
                   /\ stripe_calls' = stripe_calls
                   /\ \/ processed_stripe_events' =
                            processed_stripe_events \cup { processed_event_params(d.event) }
                      \/ /\ tick_result' = "err" /\ pc' = "idle"
                         /\ processed_stripe_events' = processed_stripe_events ]_vars

\* C9 witness: a subscription event of a customer the store could resolve was dropped
\* as stale: its record is in the ledger and no row exists.
C9_Witness ==
    \E i \in DOMAIN dispatched :
        /\ dispatched[i].outcome = "stale"
        /\ dispatched[i].event.object.tag = "Subscription"
        /\ dispatched[i].event.object.customer = "cus_1"
        /\ dispatched[i].event.id \in LedgerIds
        /\ billing_customers = << >> /\ billing_subscriptions = << >>

\* C10: a Customer's trial_started_at, once set, is never assigned another value.
C10_TrialStartOnce ==
    [][ \A c \in DOMAIN billing_customers :
          billing_customers[c].trial_started_at # NoTime =>
              billing_customers'[c].trial_started_at = billing_customers[c].trial_started_at ]_vars

(***************************************************************************)
(* Properties of the handlers (SpecSync).                                  *)
(***************************************************************************)
\* a step of SpecSync: one event of the provider is handled
Synced == Len(stripe_events') = Len(stripe_events) + 1 /\ Len(dispatched') = 1

\* the rows with this provider subscription id
RowsOf(subscriptions, sub) ==
    { i \in DOMAIN subscriptions : subscriptions[i].stripe_subscription_id = sub }

\* the rows of this Customer row whose status is active or trialing
ActiveRowsOf(subscriptions, customer) ==
    { i \in DOMAIN subscriptions :
        /\ subscriptions[i].billing_customer_id = customer
        /\ subscriptions[i].stripe_subscription_status \in { "active", "trialing" } }

\* the Customer row bound to this provider customer id, 0 for none
CustomerOf(customers, cus) ==
    IF \E c \in DOMAIN customers : customers[c].stripe_customer_id = cus
    THEN CHOOSE c \in DOMAIN customers : customers[c].stripe_customer_id = cus
    ELSE 0

\* C11: when the Customer's active subscription is a free plan and a trialing trial
\* snapshot without a local row is synced with success, the free subscription is
\* canceled at the provider, the trial row is created, and the Customer's only active
\* row is the trial.
C11_FreeToTrial ==
    [][ Synced =>
          LET d == dispatched'[1]
              s == d.event.object
              c == CustomerOf(billing_customers, s.customer)
          IN  ( /\ d.outcome = "ok"
                /\ s.tag = "Subscription"
                /\ s.kind = "ZedProTrial" /\ s.status = "trialing"
                /\ RowsOf(billing_subscriptions, s.id) = {}
                /\ c # 0
                /\ ActiveRowsOf(billing_subscriptions, c) # {}
                /\ \A i \in ActiveRowsOf(billing_subscriptions, c) :
                       billing_subscriptions[i].kind = "ZedFree" )
              => /\ \A i \in ActiveRowsOf(billing_subscriptions, c) :
                       \E k \in DOMAIN stripe_calls' :
                           stripe_calls'[k] = << "cancel_subscription",
                               billing_subscriptions[i].stripe_subscription_id >>
                 /\ RowsOf(billing_subscriptions', s.id) # {}
                 /\ ActiveRowsOf(billing_subscriptions', c) = RowsOf(billing_subscriptions', s.id)
      ]_vars

\* C12: when the account's active subscription is a paid plan and a
\* subscription-created event arrives for another provider subscription id that has
\* no row, the step creates no row; the handler returns Ok when none of its calls
\* fails, and a handler that returned Ok is followed by the event's ledger record,
\* unless the store rejects the write, which ends the tick with that error.
C12_ConflictSkip ==
    [][ Synced =>
          LET d == dispatched'[1]
              s == d.event.object
              c == CustomerOf(billing_customers, s.customer)
          IN  ( /\ d.event.type_ = "CustomerSubscriptionCreated"
                /\ RowsOf(billing_subscriptions, s.id) = {}
                /\ c # 0
                /\ \E i \in ActiveRowsOf(billing_subscriptions, c) :
                       /\ billing_subscriptions[i].kind = "ZedPro"
                       /\ billing_subscriptions[i].stripe_subscription_id # s.id )
              => /\ billing_subscriptions' = billing_subscriptions
                 /\ ~process_result(billing_customers, billing_subscriptions, d.event, 0).err
                 /\ d.outcome = "ok" =>
                        \/ processed_event_params(d.event) \in processed_stripe_events'
                        \/ tick_result' = "err" ]_vars

\* C12 witness: the account's paid subscription sub_1 is active, the
\* subscription-created event of sub_2 was handled with success and has its ledger
\* record, and there is no row for sub_2.
C12_Witness ==
    /\ Len(dispatched) = 1
    /\ dispatched[1].event.type_ = "CustomerSubscriptionCreated"
    /\ dispatched[1].event.object.id = "sub_2"
    /\ dispatched[1].outcome = "ok"
    /\ dispatched[1].event.id \in LedgerIds
    /\ RowsOf(billing_subscriptions, "sub_2") = {}
    /\ \E i \in RowsOf(billing_subscriptions, "sub_1") :
         /\ billing_subscriptions[i].kind = "ZedPro"
         /\ billing_subscriptions[i].stripe_subscription_status = "active"

\* C13: the store holds at most one row per provider subscription id: a snapshot whose
\* id has a row leaves the number of rows as it is and writes that row, and a row is
\* added only for an id that had none.
C13_OneRowPerSubscriptionId ==
    [][ /\ \A i, j \in DOMAIN billing_subscriptions' :
             billing_subscriptions'[i].stripe_subscription_id =
                 billing_subscriptions'[j].stripe_subscription_id => i = j
        /\ Synced =>
             LET s == dispatched'[1].event.object
             IN  /\ RowsOf(billing_subscriptions, s.id) # {} =>
                        /\ Len(billing_subscriptions') = Len(billing_subscriptions)
                        /\ \A i \in DOMAIN billing_subscriptions :
                               i \notin RowsOf(billing_subscriptions, s.id) =>
                                   billing_subscriptions'[i] = billing_subscriptions[i]
                 /\ Len(billing_subscriptions') # Len(billing_subscriptions) =>
                        /\ RowsOf(billing_subscriptions, s.id) = {}
                        /\ billing_subscriptions' =
                               Append(billing_subscriptions, Last(billing_subscriptions'))
                        /\ Last(billing_subscriptions').stripe_subscription_id = s.id ]_vars

\* C13 witness: the row of sub_1, created by its trialing snapshot, was updated by its
\* active snapshot and is still the only row of sub_1.
C13_Witness ==
    /\ Len(stripe_events) >= 2
    /\ Len(dispatched) = 1
    /\ dispatched[1].event.object.id = "sub_1"
    /\ dispatched[1].event.object.status = "active"
    /\ dispatched[1].outcome = "ok"
    /\ Cardinality(RowsOf(billing_subscriptions, "sub_1")) = 1
    /\ \A i \in RowsOf(billing_subscriptions, "sub_1") :
         /\ billing_subscriptions[i].stripe_subscription_status = "active"
         /\ billing_subscriptions[i].stripe_current_period_start = 2
    /\ billing_customers[1].trial_started_at = 1

\* C14: when every event so far was handled with success and has its ledger record,
\* no Customer has two rows that are active (active or trialing) at once.
C14_OneActivePerCustomer ==
    Cardinality(processed_stripe_events) = Len(stripe_events) =>
        \A c \in DOMAIN billing_customers :
            Cardinality(ActiveRowsOf(billing_subscriptions, c)) <= 1

\* C15: no account has two Customer rows and no provider customer id is bound to two
\* Customer rows.
C15_OneCustomerPerAccount ==
    \A i, j \in DOMAIN billing_customers :
        ( \/ billing_customers[i].user_id = billing_customers[j].user_id
          \/ billing_customers[i].stripe_customer_id = billing_customers[j].stripe_customer_id )
        => i = j

\* C16: a Customer row whose has_overdue_invoices is true keeps it true in every step
\* of the handlers, whatever the event and whichever call fails.
C16_OverdueMonotone ==
    [][ \A c \in DOMAIN billing_customers :
          billing_customers[c].has_overdue_invoices =>
              /\ c \in DOMAIN billing_customers'
              /\ billing_customers'[c].has_overdue_invoices ]_vars

\* C16 witness: the flag was set by the payment-failure cancellation of sub_1 and a
\* later snapshot of the same Customer without a payment failure was synced with
\* success.
C16_Witness ==
    /\ Len(dispatched) = 1
    /\ dispatched[1].outcome = "ok"
    /\ dispatched[1].event.object.customer = "cus_1"
    /\ dispatched[1].event.object.status = "active"
    /\ CustomerOf(billing_customers, "cus_1") # 0
    /\ billing_customers[CustomerOf(billing_customers, "cus_1")].has_overdue_invoices

\* C17: a row whose status is canceled keeps that status in every later sync.
C17_CanceledStaysCanceled ==
    [][ \A i \in DOMAIN billing_subscriptions :
          billing_subscriptions[i].stripe_subscription_status = "canceled" =>
              /\ i \in DOMAIN billing_subscriptions'
              /\ billing_subscriptions'[i].stripe_subscription_status = "canceled" ]_vars

\* the step issued the enroll-in-free-plan call for this provider customer
Enrolled(calls, cus) ==
    \E k \in DOMAIN calls : calls[k] = << "subscribe_to_zed_free", cus >>

\* C18: a sync issues the enroll-in-free-plan call for the snapshot's Customer only
\* when the snapshot is canceled or paused, its row is written and the Customer has no
\* active row afterwards; and a sync that returns Ok in that case has issued it (a
\* failing call makes the sync return Err).  No other step issues the call.
C18_FreePlanFallback ==
    [][ Synced =>
          LET d == dispatched'[1]
              s == d.event.object
              c == CustomerOf(billing_customers', s.customer)
              written == \E i \in RowsOf(billing_subscriptions', s.id) :
                            billing_subscriptions'[i] = UpdatedSubscription(c, s)
              fallback == /\ s.tag = "Subscription"
                          /\ s.status \in { "canceled", "paused" }
                          /\ c # 0
                          /\ written
                          /\ ActiveRowsOf(billing_subscriptions', c) = {}
          IN  /\ \A k \in DOMAIN stripe_calls' :
                     stripe_calls'[k][1] = "subscribe_to_zed_free" =>
                         stripe_calls'[k][2] = s.customer /\ fallback
              /\ (fallback /\ d.outcome = "ok") => Enrolled(stripe_calls', s.customer) ]_vars

\* C18 witness: the paused snapshot of sub_2 was synced, its row is written, the
\* Customer has no active row and the enroll call was issued.
C18_Witness ==
    /\ Len(dispatched) = 1
    /\ dispatched[1].outcome = "ok"
    /\ dispatched[1].event.object.status = "paused"
    /\ \E i \in RowsOf(billing_subscriptions, "sub_2") :
         billing_subscriptions[i].stripe_subscription_status = "paused"
    /\ CustomerOf(billing_customers, "cus_1") # 0
    /\ ActiveRowsOf(billing_subscriptions, CustomerOf(billing_customers, "cus_1")) = {}
    /\ stripe_calls = << << "subscribe_to_zed_free", "cus_1" >> >>

(***************************************************************************)
(* Properties of the usage sync (SpecUsage).                               *)
(***************************************************************************)
\* the requests the account's meters hold for a pair, 0 without a meter
RequestsOf(meters, pair) ==
    IF \E i \in DOMAIN meters : meters[i].model = pair[1] /\ meters[i].mode = pair[2]
    THEN meters[CHOOSE i \in DOMAIN meters :
                    meters[i].model = pair[1] /\ meters[i].mode = pair[2]].requests
    ELSE 0

\* the calls hold the report of the pair's usage with this quantity
Reported(calls, account, pair, quantity) ==
    \E i \in DOMAIN calls :
        calls[i] = << "bill_model_request_usage", account.stripe_customer_id,
                      PriceAndMeter(pair[1], pair[2])[2], quantity >>

\* the calls hold the ensure-subscribed call of the pair's price
EnsuredSubscribed(calls, account, pair) ==
    \E i \in DOMAIN calls :
        calls[i] = << "subscribe_to_price", account.stripe_subscription_id,
                      PriceAndMeter(pair[1], pair[2])[1] >>

\* every pair whose model is loaded is reported with the meters' count, and every
\* pair with requests has its ensure-subscribed call
FullyReported(calls, account, meters, models) ==
    \A k \in DOMAIN model_mode_combinations :
        LET pair == model_mode_combinations[k]
        IN  pair[1] \in models =>
                /\ Reported(calls, account, pair, RequestsOf(meters, pair))
                /\ RequestsOf(meters, pair) > 0 => EnsuredSubscribed(calls, account, pair)

\* a turn of the account loop
AccountTurn ==
    /\ usage_pc = "syncing"
    /\ usage_next <= Len(zed_pro_subscriptions)
    /\ usage_vars' # usage_vars

\* C19: in a turn of the account loop for a non-staff account whose provider calls
\* all succeed, every pair of the matrix whose model the usage database loads gets
\* its report call; a pair without requests is reported with quantity 0 and gets no
\* ensure-subscribed call.
C19_ZeroReported ==
    [][ AccountTurn =>
          LET account == zed_pro_subscriptions[usage_next]
              meters == usage_meters_by_user_id[account.user_id]
          IN  (account.user_id \notin staff_user_ids /\ usage_outcome' = "ok") =>
                  \A k \in DOMAIN model_mode_combinations :
                      LET pair == model_mode_combinations[k]
                      IN  (pair[1] \in known_models /\ RequestsOf(meters, pair) = 0) =>
                              /\ Reported(usage_calls', account, pair, 0)
                              /\ ~EnsuredSubscribed(usage_calls', account, pair) ]_vars

\* C19 witness: the first account of the tick, which has a meter with 0 requests for
\* one pair and no meter for another, was synced and both pairs were reported with
\* quantity 0.
C19_Witness ==
    /\ usage_pc = "syncing" /\ usage_next = 2 /\ usage_outcome = "ok"
    /\ usage_meters_by_user_id[zed_pro_subscriptions[1].user_id] # << >>
    /\ Reported(usage_calls, zed_pro_subscriptions[1], << "claude-sonnet-4", "Max" >>, 0)
    /\ Reported(usage_calls, zed_pro_subscriptions[1], << "claude-3-7-sonnet", "Normal" >>, 0)
    /\ Reported(usage_calls, zed_pro_subscriptions[1], << "claude-opus-4", "Normal" >>, 2)

\* C20: a turn of the account loop goes on to the next account whatever its outcome,
\* the tick returns only after the last account, and an account that comes after a
\* failed one gets all its ensure-subscribed and report calls when none of its own
\* calls fails.
C20_AccountFailureContained ==
    [][ /\ AccountTurn =>
             LET account == zed_pro_subscriptions[usage_next]
                 meters == usage_meters_by_user_id[account.user_id]
             IN  /\ usage_pc' = "syncing"
                 /\ usage_next' = usage_next + 1
                 /\ zed_pro_subscriptions' = zed_pro_subscriptions
                 /\ usage_outcome' \in { "staff", "ok", "failed" }
                 /\ (usage_outcome' = "staff") <=> (account.user_id \in staff_user_ids)
                 /\ (usage_failed /\ usage_outcome' = "ok") =>
                        FullyReported(usage_calls', account, meters, known_models)
        /\ (usage_pc = "syncing" /\ usage_pc' = "idle") =>
             /\ usage_next > Len(zed_pro_subscriptions)
             /\ usage_result' = "ok" ]_vars

\* C20 witness: the first account of the tick failed at a provider call and the
\* second one, which has requests, got its ensure-subscribed call and its seven reports.
C20_Witness ==
    /\ usage_pc = "syncing" /\ usage_next = 3
    /\ usage_failed /\ usage_outcome = "ok"
    /\ Len(usage_calls) = Len(model_mode_combinations) + 1
    /\ EnsuredSubscribed(usage_calls, zed_pro_subscriptions[2], << "claude-opus-4", "Normal" >>)
    /\ FullyReported(usage_calls, zed_pro_subscriptions[2],
                     usage_meters_by_user_id[zed_pro_subscriptions[2].user_id], known_models)

\* C21: a turn of the account loop for an account of the staff snapshot issues no
\* provider call, whatever its meters hold; the snapshot is the one taken when the
\* tick started.
C21_StaffExcluded ==
    [][ /\ AccountTurn =>
             (zed_pro_subscriptions[usage_next].user_id \in staff_user_ids =>
                  usage_calls' = << >> /\ usage_outcome' = "staff")
        /\ (usage_pc = "syncing" /\ usage_pc' = "syncing") =>
             staff_user_ids' = staff_user_ids ]_vars

\* C21 witness: a staff account with usage meters was reached after an account that
\* was billed, and no call was issued for it.
C21_Witness ==
    /\ usage_pc = "syncing" /\ usage_next = 3
    /\ usage_outcome = "staff" /\ usage_calls = << >>
    /\ zed_pro_subscriptions[2].user_id \in staff_user_ids
    /\ zed_pro_subscriptions[1].user_id \notin staff_user_ids
    /\ usage_meters_by_user_id[zed_pro_subscriptions[2].user_id] # << >>

\* C22: a turn of the dispatch loop that has events left after the one it reaches
\* stays in the loop and goes on to the next event, whatever call failed in it; the
\* tick returns only when the batch is empty.
C22_FailureAbortsOnlyTheEvent ==
    [][ /\ ( /\ pc = "handling"
              /\ Len(unprocessed_events) > 1
              /\ << pc, unprocessed_events, dispatched >>' #
                     << pc, unprocessed_events, dispatched >> )
            => /\ pc' = "handling"
               /\ unprocessed_events' = Tail(unprocessed_events)
        /\ (pc = "handling" /\ pc' = "idle") => Len(unprocessed_events) <= 1 ]_vars

\* C24: a subscription snapshot is applied only after every applied snapshot of the
\* same provider subscription that precedes it in (created, id) order: when a handler
\* returns Ok for an event, no event of the same subscription that comes after it in
\* that order has a ledger record of a handling (an event that is not stale now was
\* not stale when its record was written).
C24_AppliedInOrderAcrossTicks ==
    [][ Reaches =>
          LET d == Last(dispatched')
          IN  (d.outcome = "ok" /\ d.event.object.tag = "Subscription") =>
                  \A i \in DOMAIN stripe_events :
                      ( /\ stripe_events[i].id \in LedgerIds
                        /\ stripe_events[i].id # d.event.id
                        /\ stripe_events[i].object.tag = "Subscription"
                        /\ stripe_events[i].object.id = d.event.object.id
                        /\ now - stripe_events[i].created <= 24 * 60 * 60 )
                      => KeyLess(stripe_events[i], d.event) ]_vars

\* the pair of the matrix a call is about: the one with this price or meter-event name
PairsOfCall(call) ==
    { k \in DOMAIN model_mode_combinations :
        LET pm == PriceAndMeter(model_mode_combinations[k][1], model_mode_combinations[k][2])
        IN  \/ call[1] = "subscribe_to_price" /\ call[3] = pm[1]
            \/ call[1] = "bill_model_request_usage" /\ call[3] = pm[2] }

\* C25: among the calls of an account's turn, an ensure-subscribed call is issued
\* only for a pair whose meter count is above zero and is directly followed by the
\* report of that pair or by nothing (the block ended); a report with a count above
\* zero directly follows the ensure-subscribed call of its pair, so a failed
\* ensure-subscribed call leaves the pair without a report.
C25_SubscribeBeforeReport ==
    [][ AccountTurn =>
          LET account == zed_pro_subscriptions[usage_next]
              meters == usage_meters_by_user_id[account.user_id]
              calls == usage_calls'
          IN  \A i \in DOMAIN calls :
                  /\ calls[i][1] \in { "subscribe_to_price", "bill_model_request_usage" }
                  /\ calls[i][1] = "subscribe_to_price" =>
                         /\ \A k \in PairsOfCall(calls[i]) :
                                RequestsOf(meters, model_mode_combinations[k]) > 0
                         /\ i < Len(calls) =>
                                /\ calls[i + 1][1] = "bill_model_request_usage"
                                /\ PairsOfCall(calls[i + 1]) = PairsOfCall(calls[i])
                         /\ i = Len(calls) => usage_outcome' = "failed"
                  /\ (calls[i][1] = "bill_model_request_usage" /\ calls[i][4] > 0) =>
                         /\ i > 1
                         /\ calls[i - 1][1] = "subscribe_to_price"
                         /\ calls[i - 1][2] = account.stripe_subscription_id
                         /\ PairsOfCall(calls[i - 1]) = PairsOfCall(calls[i]) ]_vars

\* C25 witness: the account has requests for its second pair only; the report of
\* the first pair was issued, the ensure-subscribed call of the second failed, and
\* no other call was issued.
C25_Witness ==
    /\ usage_pc = "syncing" /\ usage_next = 2 /\ usage_outcome = "failed"
    /\ RequestsOf(usage_meters_by_user_id[zed_pro_subscriptions[1].user_id],
                  model_mode_combinations[2]) > 0
    /\ Len(usage_calls) = 1
    /\ Reported(usage_calls, zed_pro_subscriptions[1], model_mode_combinations[1], 0)

\* C26: every report call of an account's turn is scoped to the account's provider
\* customer id, is about exactly one pair of the matrix, under the meter-event name
\* of that pair, and its quantity is the request count of the account's meter for the
\* pair, 0 without a meter; no pair is reported twice, and a turn whose calls all
\* succeed reports every pair whose model is loaded.
C26_ReportedQuantity ==
    [][ AccountTurn =>
          LET account == zed_pro_subscriptions[usage_next]
              meters == usage_meters_by_user_id[account.user_id]
              calls == usage_calls'
          IN  /\ \A i \in DOMAIN calls :
                     calls[i][1] = "bill_model_request_usage" =>
                         /\ calls[i][2] = account.stripe_customer_id
                         /\ Cardinality(PairsOfCall(calls[i])) = 1
                         /\ \A k \in PairsOfCall(calls[i]) :
                                /\ model_mode_combinations[k][1] \in known_models
                                /\ calls[i][4] = RequestsOf(meters, model_mode_combinations[k])
                         /\ \A j \in DOMAIN calls : calls[j][3] = calls[i][3] => j = i
              /\ usage_outcome' = "ok" =>
                     FullyReported(calls, account, meters, known_models) ]_vars

\* C26 witness: an account with a meter of 2 requests for (claude-opus-4, Normal) and
\* none for (claude-opus-4, Max) was synced: the first is reported with 2 under
\* claude_opus_4/requests, the second with 0 under claude_opus_4/requests/max.
C26_Witness ==
    /\ usage_pc = "syncing" /\ usage_next = 2 /\ usage_outcome = "ok"
    /\ \E i, j \in DOMAIN usage_calls :
         /\ usage_calls[i] = << "bill_model_request_usage",
                                zed_pro_subscriptions[1].stripe_customer_id,
                                "claude_opus_4/requests", 2 >>
         /\ usage_calls[j] = << "bill_model_request_usage",
                                zed_pro_subscriptions[1].stripe_customer_id,
                                "claude_opus_4/requests/max", 0 >>

\* the flag of the Customer bound to this provider customer id, false without a row
OverdueOf(customers, cus) ==
    CustomerOf(customers, cus) # 0 /\ customers[CustomerOf(customers, cus)].has_overdue_invoices

\* C27: a sync changes has_overdue_invoices of the snapshot's Customer only when the
\* snapshot is canceled with reason payment-failure, and then to true; a sync of such
\* a snapshot that returns Ok leaves it true; the flag of every other Customer stays
\* as it is.
C27_OverdueExactlyOnPaymentFailure ==
    [][ Synced =>
          LET d == dispatched'[1]
              s == d.event.object
              payment_failed == /\ s.tag = "Subscription"
                                /\ s.status = "canceled"
                                /\ s.reason = "payment_failed"
          IN  /\ \A k \in DOMAIN billing_customers :
                     billing_customers[k].stripe_customer_id # s.customer =>
                         billing_customers'[k] = billing_customers[k]
              /\ OverdueOf(billing_customers', s.customer) #
                     OverdueOf(billing_customers, s.customer)
                 => payment_failed /\ OverdueOf(billing_customers', s.customer)
              /\ (payment_failed /\ d.outcome = "ok") =>
                     OverdueOf(billing_customers', s.customer) ]_vars

\* C27 witness: the cancellation of sub_2 on the user's request was synced with
\* success, its row is canceled and the Customer's flag is false.
C27_Witness ==
    /\ Len(dispatched) = 1
    /\ dispatched[1].outcome = "ok"
    /\ dispatched[1].event.object.status = "canceled"
    /\ dispatched[1].event.object.reason = "cancellation_requested"
    /\ \E i \in RowsOf(billing_subscriptions, "sub_2") :
         billing_subscriptions[i].stripe_subscription_status = "canceled"
    /\ CustomerOf(billing_customers, "cus_1") # 0
    /\ ~OverdueOf(billing_customers, "cus_1")

\* C28: a sync that returns Ok for a snapshot whose provider subscription id has a
\* row leaves that row with the snapshot's kind, status, cancel_at, cancellation
\* reason, period start and period end (an absent value clearing the stored one) and
\* linked to the resolved Customer; the other rows and the number of rows stay.
C28_UpdateWritesSnapshot ==
    [][ Synced =>
          LET d == dispatched'[1]
              s == d.event.object
          IN  (d.outcome = "ok" /\ s.tag = "Subscription"
                 /\ RowsOf(billing_subscriptions, s.id) # {}) =>
                  /\ Len(billing_subscriptions') = Len(billing_subscriptions)
                  /\ \A i \in DOMAIN billing_subscriptions :
                         IF i \in RowsOf(billing_subscriptions, s.id)
                         THEN /\ billing_subscriptions'[i].kind = s.kind
                              /\ billing_subscriptions'[i].stripe_subscription_id = s.id
                              /\ billing_subscriptions'[i].stripe_subscription_status = s.status
                              /\ billing_subscriptions'[i].stripe_cancel_at = s.cancel_at
                              /\ billing_subscriptions'[i].stripe_cancellation_reason = s.reason
                              /\ billing_subscriptions'[i].stripe_current_period_start =
                                     s.current_period_start
                              /\ billing_subscriptions'[i].stripe_current_period_end =
                                     s.current_period_end
                              /\ billing_subscriptions'[i].billing_customer_id =
                                     CustomerOf(billing_customers', s.customer)
                              /\ billing_subscriptions'[i].billing_customer_id # 0
                         ELSE billing_subscriptions'[i] = billing_subscriptions[i] ]_vars

\* C28 witness: three events were handled with success; the second left the row of
\* sub_1 with cancel_at 5, the third is a snapshot of sub_1 without cancel_at and the
\* row's cancel_at is absent.
C28_Witness ==
    /\ Len(stripe_events) = 3
    /\ Cardinality(processed_stripe_events) = 3
    /\ stripe_events[1].object.id = "sub_1"
    /\ stripe_events[2].object.id = "sub_1" /\ stripe_events[2].object.cancel_at = 5
    /\ stripe_events[3].object.id = "sub_1" /\ stripe_events[3].object.cancel_at = NoTime
    /\ stripe_events[3].object.status = "canceled"
    /\ \A i \in RowsOf(billing_subscriptions, "sub_1") :
         /\ billing_subscriptions[i].stripe_cancel_at = NoTime
         /\ billing_subscriptions[i].stripe_subscription_status = "canceled"
         /\ billing_subscriptions[i].stripe_cancellation_reason = "payment_failed"

\* C29: a customer event for a provider customer id that has a Customer row changes
\* no row; for an id without a row whose email is the email of a local account, a
\* handling that returns Ok adds exactly one Customer row, bound to that account and
\* that id, and changes no other row.  A customer event changes no Subscription row.
C29_CustomerUpsert ==
    [][ Synced =>
          LET d == dispatched'[1]
              cus == d.event.object.customer
          IN  d.event.type_ \in { "CustomerCreated", "CustomerUpdated" } =>
                  /\ billing_subscriptions' = billing_subscriptions
                  /\ IF \E k \in DOMAIN billing_customers :
                            billing_customers[k].stripe_customer_id = cus
                     THEN billing_customers' = billing_customers
                     ELSE get_user_by_email(StripeCustomerEmail(cus)) # 0 =>
                          \/ billing_customers' = billing_customers /\ d.outcome = "failed"
                          \/ /\ d.outcome = "ok"
                             /\ Len(billing_customers') = Len(billing_customers) + 1
                             /\ SubSeq(billing_customers', 1, Len(billing_customers)) =
                                    billing_customers
                             /\ Last(billing_customers').user_id =
                                    get_user_by_email(StripeCustomerEmail(cus))
                             /\ Last(billing_customers').stripe_customer_id = cus ]_vars

\* C29 witness: the customer.created event of cus_2 was handled twice with success
\* and there is one Customer row of cus_2, bound to account 1.
C29_Witness ==
    /\ Len(stripe_events) >= 2
    /\ \A i \in 1 .. 2 :
         /\ stripe_events[i].type_ = "CustomerCreated"
         /\ stripe_events[i].object.customer = "cus_2"
         /\ stripe_events[i].id \in LedgerIds
    /\ Len(stripe_events) = 2
    /\ billing_customers = << [ user_id |-> 1, stripe_customer_id |-> "cus_2",
                                trial_started_at |-> NoTime,
                                has_overdue_invoices |-> FALSE ] >>

\* a customer event whose payload cannot be correlated to a local account
Uncorrelated(event) ==
    /\ event.type_ \in { "CustomerCreated", "CustomerUpdated" }
    /\ StripeCustomerEmail(event.object.customer) \notin AccountEmails

\* C30: handling a customer event whose payload has no email, or whose email is no
\* local account's, changes no Customer row and no Subscription row; without an
\* email the handler returns Ok, with an unmatched email it returns Ok unless the
\* account lookup itself fails; a handling that returned Ok has the event's ledger
\* record, or the ledger write was rejected and the tick returned Err.
C30_UncorrelatedCustomerSkipped ==
    [][ Synced =>
          LET d == dispatched'[1]
          IN  Uncorrelated(d.event) =>
                  /\ billing_customers' = billing_customers
                  /\ billing_subscriptions' = billing_subscriptions
                  /\ StripeCustomerEmail(d.event.object.customer) = "none" =>
                         d.outcome = "ok"
                  /\ d.outcome = "ok" =>
                         \/ /\ processed_stripe_events' =
                                    processed_stripe_events \cup
                                        { processed_event_params(d.event) }
                            /\ tick_result' = "ok"
                         \/ /\ processed_stripe_events' = processed_stripe_events
                            /\ tick_result' = "err"
                  /\ d.outcome = "failed" =>
                         processed_stripe_events' = processed_stripe_events ]_vars

\* C30 witness: a Customer row exists, then an event of a customer without an email
\* and an event of a customer with an unmatched email were handled; both are in the
\* ledger and the rows are those of before.
C30_Witness ==
    /\ Len(stripe_events) = 3
    /\ stripe_events[1].object.customer = "cus_2"
    /\ stripe_events[2].object.customer = "cus_3"
    /\ stripe_events[3].object.customer = "cus_4"
    /\ Uncorrelated(stripe_events[2]) /\ Uncorrelated(stripe_events[3])
    /\ LedgerIds = { 1, 2, 3 }
    /\ dispatched[1].event = stripe_events[3]
    /\ dispatched[1].outcome = "ok"
    /\ Len(billing_customers) = 1
    /\ billing_customers[1].stripe_customer_id = "cus_2"

\* C23: neither loop ever stops.  Whenever the event poller is not inside a tick,
\* whatever its last tick returned, its next tick can start, and inside a tick its
\* next step can be taken; whenever the usage sync is not inside a tick, whatever
\* its last tick returned, its next tick can start, and inside a tick the account
\* loop has an account to turn to or can end.
C23_LoopsRunForever ==
    /\ pc \notin { "paging", "handling" } => ENABLED StartTick
    /\ pc = "paging" => ENABLED ProcessPage
    /\ pc = "handling" => ENABLED (HandleEvent \/ EndTick)
    /\ usage_pc # "syncing" => ENABLED StartUsageSync
    /\ usage_pc = "syncing" =>
           \/ usage_next \in DOMAIN zed_pro_subscriptions
           \/ ENABLED EndUsageSync

\* C23 witness: the last tick of the poller returned Err after it had reached an
\* event, the last usage sync returned Err, and both loops are asleep before their
\* next tick.
C23_Witness ==
    /\ pc = "idle" /\ tick_result = "err" /\ dispatched # << >>
    /\ usage_pc = "idle" /\ usage_result = "err"
    /\ ENABLED StartTick
    /\ ENABLED StartUsageSync

\* a subscription event whose provider customer has no Customer row and cannot get
\* one: the provider's customer has no email, or an email that is no account's
Unresolvable(customers, event) ==
    /\ event.object.tag = "Subscription"
    /\ CustomerOf(customers, event.object.customer) = 0
    /\ StripeCustomerEmail(event.object.customer) \notin AccountEmails

\* the handling of an unresolvable subscription event fails, leaves the rows as they
\* are, sends no notification and writes no ledger record
UnresolvableHandlingFails ==
    [][ (Reaches /\ Unresolvable(billing_customers, Last(dispatched').event)
           /\ Last(dispatched').outcome # "stale") =>
            /\ Last(dispatched').outcome = "failed"
            /\ billing_customers' = billing_customers
            /\ billing_subscriptions' = billing_subscriptions
            /\ rpc_calls' = << >>
            /\ processed_stripe_events' = processed_stripe_events ]_vars

\* the ids of the events of the log that are unresolvable subscription events
UnresolvableIds ==
    { stripe_events[i].id :
        i \in { j \in DOMAIN stripe_events :
                   Unresolvable(billing_customers, stripe_events[j]) } }

\* C31: a subscription event whose customer cannot be resolved is a handling failure
\* without a ledger record, and it is reached again by the next tick (stated for the
\* ticks that return Ok; the clock stands still under SpecPages, so no event becomes
\* stale).
C31_UnresolvableRetried ==
    /\ \A i \in DOMAIN dispatched :
          Unresolvable(billing_customers, dispatched[i].event) =>
              /\ dispatched[i].outcome = "failed"
              /\ dispatched[i].event.id \notin LedgerIds
    /\ (pc = "idle" /\ tick_result = "ok") =>
           (prev_failed \cap UnresolvableIds) \subseteq ReachedIds(dispatched)

\* C32: the notifications of a handling are sent only when the sync of the event
\* returned Ok (a handling that fails has sent none); a handling whose sync returned
\* Ok sends update_plan_for_user and then refresh_llm_tokens_for_user for the
\* account of the resolved Customer; a failed update_plan_for_user leaves the
\* handling Ok, and the event gets its ledger record unless the ledger write itself
\* is rejected (then the tick returns Err).
C32_NotificationsBestEffort ==
    [][ Synced =>
          LET d == dispatched'[1]
              s == d.event.object
          IN  /\ d.outcome = "failed" => rpc_calls' = << >>
              /\ s.tag # "Subscription" => rpc_calls' = << >>
              /\ (s.tag = "Subscription" /\ d.outcome = "ok") =>
                     LET c == CustomerOf(billing_customers', s.customer)
                     IN  /\ c # 0
                         /\ Len(rpc_calls') = 2
                         /\ rpc_calls'[1][1] = "update_plan_for_user"
                         /\ rpc_calls'[1][2] = billing_customers'[c].user_id
                         /\ rpc_calls'[2] = << "refresh_llm_tokens_for_user",
                                               billing_customers'[c].user_id >>
                         /\ \/ /\ d.event.id \in { r.stripe_event_id :
                                                      r \in processed_stripe_events' }
                               /\ tick_result' = "ok"
                            \/ /\ processed_stripe_events' = processed_stripe_events
                               /\ tick_result' = "err" ]_vars

\* C32 witness: the sync of a subscription event returned Ok, update_plan_for_user
\* failed, the handling is Ok and the event has its ledger record.
C32_Witness ==
    /\ Len(dispatched) = 1
    /\ dispatched[1].event.object.tag = "Subscription"
    /\ dispatched[1].outcome = "ok"
    /\ Len(rpc_calls) = 2
    /\ rpc_calls[1] = << "update_plan_for_user", 1, "failed" >>
    /\ dispatched[1].event.id \in LedgerIds
    /\ RowsOf(billing_subscriptions, dispatched[1].event.object.id) # {}

\* C33: a step of the usage sync, taken at any point of an event tick, leaves the
\* Customer rows, the Subscription rows and the processed-event ledger as they are.
C33_UsageSyncWritesNoRow ==
    [][ usage_vars' # usage_vars =>
          /\ billing_customers' = billing_customers
          /\ billing_subscriptions' = billing_subscriptions
          /\ processed_stripe_events' = processed_stripe_events ]_vars

\* C33 witness: an event tick is inside its dispatch loop, where it has handled an
\* event and written its ledger record; the store holds a Customer row and a
\* Subscription row, and the usage sync, inside its account loop, has issued
\* provider calls.
C33_Witness ==
    /\ pc = "handling" /\ dispatched # << >>
    /\ usage_pc = "syncing" /\ usage_next > 1 /\ usage_calls # << >>
    /\ billing_customers # << >>
    /\ billing_subscriptions # << >>
    /\ processed_stripe_events # {}

\* the pages of the provider's event log as it stands (an empty log is one empty page)
NumPages ==
    IF stripe_events = << >> THEN 1
    ELSE (Len(stripe_events) + PageSize - 1) \div PageSize

\* C34: the pagination loop of a tick checks at most as many pages as the log has;
\* a turn of the loop leaves the loop exactly when the provider reports no further
\* page or the fully processed pages seen in the tick have reached the threshold of
\* 4, and otherwise fetches the next page, further down the log (or returns Err when
\* the fetch fails); after the loop is left no page is fetched or checked.
C34_PaginationTerminates ==
    [][ /\ Len(pages_seen') <= NumPages
        /\ (pc = "paging" /\ Len(pages_seen') = Len(pages_seen) + 1) =>
               LET more == event_pages.has_more
                   stop == FullyProcessedSeen' >=
                               NUMBER_OF_ALREADY_PROCESSED_PAGES_BEFORE_WE_STOP
               IN  /\ (~more \/ stop) <=> pc' = "handling"
                   /\ pc' = "handling" => event_pages' = event_pages
                   /\ pc' = "paging" => event_pages'.served > event_pages.served
        /\ pc = "handling" =>
               /\ pages_seen' = pages_seen
               /\ pc' = "handling" => event_pages' = event_pages ]_vars

\* C34 witness: the loop was left at the threshold, after four fully processed
\* pages, while the provider reported a further page, which was not fetched.
C34_Witness ==
    /\ pc = "handling"
    /\ event_pages.has_more
    /\ FullyProcessedSeen = NUMBER_OF_ALREADY_PROCESSED_PAGES_BEFORE_WE_STOP
    /\ Len(pages_seen) < NumPages
    /\ event_pages.served < Len(stripe_events)

\* the log is: a snapshot of subscription A, active or trialing; the creation of
\* another subscription B of the same customer (not a trial replacing a free plan);
\* the cancellation of A; and the three events were handled with success and have
\* their ledger records
RaceProcessed ==
    /\ Len(stripe_events) = 3
    /\ LedgerIds = { 1, 2, 3 }
    /\ LET a == stripe_events[1].object
           b == stripe_events[2].object
           c == stripe_events[3].object
       IN  /\ a.tag = "Subscription" /\ b.tag = "Subscription" /\ c.tag = "Subscription"
           /\ a.status \in { "active", "trialing" }
           /\ stripe_events[2].type_ = "CustomerSubscriptionCreated"
           /\ b.id # a.id /\ b.customer = a.customer
           /\ ~(a.kind = "ZedFree" /\ b.kind = "ZedProTrial")
           /\ c.id = a.id /\ c.customer = a.customer
           /\ c.status = "canceled"

\* C35: after the creation of B was processed while A was active locally and the
\* cancellation of A was processed next, B has no row although its event has its
\* ledger record, the row of A is canceled, and the customer has no active row.
C35_AcceptedRace ==
    RaceProcessed =>
        LET a == stripe_events[1].object
            b == stripe_events[2].object
        IN  /\ RowsOf(billing_subscriptions, b.id) = {}
            /\ RowsOf(billing_subscriptions, a.id) # {}
            /\ \A i \in RowsOf(billing_subscriptions, a.id) :
                  billing_subscriptions[i].stripe_subscription_status = "canceled"
            /\ CustomerOf(billing_customers, a.customer) # 0
            /\ ActiveRowsOf(billing_subscriptions,
                            CustomerOf(billing_customers, a.customer)) = {}

\* C35 witness: sub_1 became active, the creation of the active sub_2 was processed,
\* then the cancellation of sub_1; the only row is the canceled row of sub_1.
C35_Witness ==
    /\ RaceProcessed
    /\ stripe_events[1].object.id = "sub_1" /\ stripe_events[1].object.status = "active"
    /\ stripe_events[2].object.id = "sub_2" /\ stripe_events[2].object.status = "active"
    /\ Len(billing_subscriptions) = 1
    /\ billing_subscriptions[1].stripe_subscription_id = "sub_1"
    /\ billing_subscriptions[1].stripe_subscription_status = "canceled"

\* the snapshot has no row and the account has an active subscription that is not a
\* free plan about to be replaced by a trial: the conflict policy skips its creation
ConflictSkipped(customers, subscriptions, s) ==
    /\ s.tag = "Subscription"
    /\ RowsOf(subscriptions, s.id) = {}
    /\ CustomerOf(customers, s.customer) # 0
    /\ LET active == get_active_billing_subscription(
                         customers, subscriptions,
                         customers[CustomerOf(customers, s.customer)].user_id)
       IN  /\ active # 0
           /\ ~(subscriptions[active].kind = "ZedFree" /\ s.kind = "ZedProTrial")

\* C36: the sync of a snapshot whose row creation is skipped by the conflict policy
\* (the sync returns Ok) leaves every Subscription row and every Customer row (trial_started_at and
\* has_overdue_invoices included) as it was and issues no provider mutation call.
C36_ConflictSkipChangesNothing ==
    [][ (Synced /\ dispatched'[1].outcome = "ok"
               /\ ConflictSkipped(billing_customers, billing_subscriptions,
                                  dispatched'[1].event.object)) =>
            /\ billing_subscriptions' = billing_subscriptions
            /\ billing_customers' = billing_customers
            /\ stripe_calls' = << >> ]_vars

RecordsOf(ledger, id) == { r \in ledger : r.stripe_event_id = id }

====
